---- MODULE Spec2Model ----
(***************************************************************************)
(* Verification model of the ESG job board: the scoring engine (scorer.js, *)
(* found in src/unnamed/part_000), the storage layer (db.js, second copy   *)
(* in src/fetcher.js), the ingestion pass fetchAllJobs (src/fetcher.js)    *)
(* and the sponsor register (src/sponsor.js).                              *)
(*                                                                         *)
(* Text is modelled by TLA+ strings; only Len, SubSeq and \o are used on   *)
(* them, so every regular expression of the source is written out as the   *)
(* scan it performs.                                                       *)
(***************************************************************************)
EXTENDS Integers, Sequences, FiniteSets, TLC

(***************************************************************************)
(* JavaScript values                                                       *)
(***************************************************************************)
\* null / undefined in a text-valued field
NULL == "<null>"
\* null / undefined in a number-valued field
NULLNUM == -1
\* NaN as produced by parseInt
NAN == -999999

Truthy(s) == s # NULL /\ s # ""
TruthyNum(n) == n # NULLNUM /\ n # NAN /\ n # 0

Max(a, b) == IF a >= b THEN a ELSE b
Min(a, b) == IF a <= b THEN a ELSE b

(***************************************************************************)
(* String helpers (String.prototype.* and the RegExp scans of the source)  *)
(***************************************************************************)
CharAt(s, i) == SubSeq(s, i, i)

UpperChars == "ABCDEFGHIJKLMNOPQRSTUVWXYZ"
LowerChars == "abcdefghijklmnopqrstuvwxyz"
DigitChars == "0123456789"

UpperSet == {CharAt(UpperChars, i) : i \in 1..26}
LowerSet == {CharAt(LowerChars, i) : i \in 1..26}
DigitSet == {CharAt(DigitChars, i) : i \in 1..10}

IsUpper(c) == c \in UpperSet
IsLower(c) == c \in LowerSet
IsDigit(c) == c \in DigitSet
\* \s of the regular expressions
IsSpace(c) == c \in {" ", "\t", "\n", "\r"}
\* \w of the regular expressions
IsWordChar(c) == IsUpper(c) \/ IsLower(c) \/ IsDigit(c) \/ c = "_"

\* the lower-case letter of each upper-case letter
LowerOf == [c \in UpperSet |-> CharAt(LowerChars, CHOOSE i \in 1..26 : CharAt(UpperChars, i) = c)]

LowerChar(c) == IF IsUpper(c) THEN LowerOf[c] ELSE c

RECURSIVE MapRange(_, _, _)
\* F(lo) \o F(lo+1) \o ... \o F(hi), split in halves so that the evaluation
\* depth stays logarithmic in the length of the text
MapRange(F(_), lo, hi) ==
  IF lo > hi THEN ""
  ELSE IF lo = hi THEN F(lo)
  ELSE LET mid == (lo + hi) \div 2
       IN MapRange(F, lo, mid) \o MapRange(F, mid + 1, hi)

\* String.prototype.toLowerCase
ToLower(s) == LET F(i) == LowerChar(CharAt(s, i)) IN MapRange(F, 1, Len(s))

\* does kw occur in s at position i
At(s, i, kw) == i >= 1 /\ i + Len(kw) - 1 <= Len(s) /\ SubSeq(s, i, i + Len(kw) - 1) = kw

\* String.prototype.includes
Includes(s, kw) == \E i \in 1..(Len(s) + 1) : At(s, i, kw)

\* String.prototype.startsWith
StartsWith(s, kw) == At(s, 1, kw)

\* the least element of a non-empty set of integers
MinOf(S) == CHOOSE m \in S : \A n \in S : m <= n

\* first position >= i of s that holds no whitespace (Len(s)+1 when none)
SkipSpaces(s, i) ==
  MinOf({j \in i..(Len(s) + 1) : j > Len(s) \/ ~IsSpace(CharAt(s, j))})

\* /a\s+b/ : a, one or more whitespace characters, b
MatchWS(s, a, b) ==
  \E i \in 1..Len(s) :
    /\ At(s, i, a)
    /\ i + Len(a) <= Len(s)
    /\ IsSpace(CharAt(s, i + Len(a)))
    /\ At(s, SkipSpaces(s, i + Len(a)), b)

\* /\ba\b/ : a between two word boundaries (a starts and ends with \w)
MatchWord(s, a) ==
  \E i \in 1..Len(s) :
    /\ At(s, i, a)
    /\ (i = 1 \/ ~IsWordChar(CharAt(s, i - 1)))
    /\ (i + Len(a) > Len(s) \/ ~IsWordChar(CharAt(s, i + Len(a))))

\* /a.b/ : a, any one character except a line terminator, b
MatchDot(s, a, b) ==
  \E i \in 1..Len(s) :
    /\ At(s, i, a)
    /\ i + Len(a) <= Len(s)
    /\ CharAt(s, i + Len(a)) \notin {"\n", "\r"}
    /\ At(s, i + Len(a) + 1, b)

\* Position i of s lies in a match of /<[^>]*>/g: a "<" at or before i with
\* no ">" between it and i, and a ">" at or after i to close the match.
InTag(s, i) ==
  /\ \E g \in i..Len(s) : CharAt(s, g) = ">"
  /\ \E j \in 1..i : CharAt(s, j) = "<" /\ \A k \in j..(i - 1) : CharAt(s, k) # ">"

\* .replace(/<[^>]*>/g, " ") : every match leaves one space, where it ends
ReplaceTags(s) ==
  LET F(i) == IF InTag(s, i) THEN (IF CharAt(s, i) = ">" THEN " " ELSE "") ELSE CharAt(s, i)
  IN MapRange(F, 1, Len(s))

\* .replace(/\s+/g, " ") : every run of whitespace leaves one space, where it starts
CollapseSpaces(s) ==
  LET F(i) == IF IsSpace(CharAt(s, i))
              THEN (IF i > 1 /\ IsSpace(CharAt(s, i - 1)) THEN "" ELSE " ")
              ELSE CharAt(s, i)
  IN MapRange(F, 1, Len(s))

\* String.prototype.trim
Trim(s) ==
  LET keep == {i \in 1..Len(s) : ~IsSpace(CharAt(s, i))}
  IN IF keep = {} THEN ""
     ELSE SubSeq(s, MinOf(keep), CHOOSE m \in keep : \A n \in keep : n <= m)

stripHtml(html) == Trim(CollapseSpaces(ReplaceTags(html)))

(***************************************************************************)
(* Visa salary thresholds and occupation codes (scorer.js)                 *)
(***************************************************************************)
GENERAL_THRESHOLD == 41700

\* the occupation codes of SOC_GOING_RATES, in the order of the table
SOC_CODES == <<"2431", "2152", "2151", "3545", "2425", "2424", "2423", "2136", "2463">>

SOC_GOING_RATES ==
  [c \in {SOC_CODES[i] : i \in 1..Len(SOC_CODES)} |->
     CASE c = "2431" -> [title |-> "Management consultants", standard |-> 50200, newEntrant |-> 36000]
       [] c = "2152" -> [title |-> "Environment professionals", standard |-> 37200, newEntrant |-> 31400]
       [] c = "2151" -> [title |-> "Conservation professionals", standard |-> 36000, newEntrant |-> 29800]
       [] c = "3545" -> [title |-> "Data analysts", standard |-> 34900, newEntrant |-> 28600]
       [] c = "2425" -> [title |-> "Actuaries, economists, statisticians", standard |-> 43600, newEntrant |-> 33400]
       [] c = "2424" -> [title |-> "Business & financial project mgmt", standard |-> 41700, newEntrant |-> 33100]
       [] c = "2423" -> [title |-> "Management consultants & analysts", standard |-> 41700, newEntrant |-> 33100]
       [] c = "2136" -> [title |-> "Programmers & software developers", standard |-> 45100, newEntrant |-> 34200]
       [] c = "2463" -> [title |-> "Environmental health professionals", standard |-> 35400, newEntrant |-> 29000]]

\* A regular expression of the rule tables, by the scan it performs on the
\* lower-cased text (every pattern of the tables carries the i flag):
\*   "ws"   /a\s+b/      "sub"  /a/      "word" /\ba\b/      "dot"  /a.b/
\*   "alt"  /a\s+(b1|b2|...)/ with the alternatives in bs
Pat(kind, a, b) == [kind |-> kind, a |-> a, b |-> b, bs |-> <<>>]
PatAlt(a, bs) == [kind |-> "alt", a |-> a, b |-> "", bs |-> bs]

TestPattern(p, lowered) ==
  CASE p.kind = "ws" -> MatchWS(lowered, p.a, p.b)
    [] p.kind = "sub" -> Includes(lowered, p.a)
    [] p.kind = "word" -> MatchWord(lowered, p.a)
    [] p.kind = "dot" -> MatchDot(lowered, p.a, p.b)
    [] p.kind = "alt" -> \E k \in 1..Len(p.bs) : MatchWS(lowered, p.a, p.bs[k])

\* RegExp.prototype.test(x) converts x to a string first
TestText(x) == IF x = NULL THEN "undefined" ELSE ToLower(x)

SOC_TITLE_MAP == <<
  [pattern |-> Pat("ws", "sustainability", "consultant"), soc |-> "2431", label |-> "Management consultants"],
  [pattern |-> Pat("ws", "esg", "consultant"), soc |-> "2431", label |-> "Management consultants"],
  [pattern |-> Pat("ws", "climate", "consultant"), soc |-> "2431", label |-> "Management consultants"],
  [pattern |-> Pat("ws", "management", "consultant"), soc |-> "2431", label |-> "Management consultants"],
  [pattern |-> Pat("ws", "esg", "analyst"), soc |-> "3545", label |-> "Data analysts"],
  [pattern |-> Pat("ws", "sustainability", "analyst"), soc |-> "3545", label |-> "Data analysts"],
  [pattern |-> Pat("ws", "data", "analyst"), soc |-> "3545", label |-> "Data analysts"],
  [pattern |-> Pat("ws", "climate", "analyst"), soc |-> "3545", label |-> "Data analysts"],
  \* /environment(al)?\s+(...)/ is written as two consecutive rules with the same code
  [pattern |-> PatAlt("environment", <<"professional", "officer", "manager", "specialist", "advisor">>),
     soc |-> "2152", label |-> "Environment professionals"],
  [pattern |-> PatAlt("environmental", <<"professional", "officer", "manager", "specialist", "advisor">>),
     soc |-> "2152", label |-> "Environment professionals"],
  [pattern |-> PatAlt("sustainability", <<"manager", "director", "lead", "officer", "head">>),
     soc |-> "2152", label |-> "Environment professionals"],
  [pattern |-> PatAlt("esg", <<"manager", "director", "lead", "officer", "head">>),
     soc |-> "2152", label |-> "Environment professionals"],
  [pattern |-> Pat("sub", "conservation", ""), soc |-> "2151", label |-> "Conservation professionals"],
  [pattern |-> Pat("sub", "biodiversity", ""), soc |-> "2151", label |-> "Conservation professionals"],
  [pattern |-> Pat("sub", "ecolog", ""), soc |-> "2151", label |-> "Conservation professionals"],
  [pattern |-> Pat("ws", "environmental", "health"), soc |-> "2463", label |-> "Environmental health professionals"],
  [pattern |-> Pat("ws", "esg", "advisor"), soc |-> "2431", label |-> "Management consultants"],
  [pattern |-> Pat("ws", "climate", "risk"), soc |-> "2425", label |-> "Actuaries, economists, statisticians"],
  [pattern |-> Pat("ws", "sustainability", "report"), soc |-> "2431", label |-> "Management consultants"],
  [pattern |-> Pat("ws", "sustainability", "communicat"), soc |-> "2431", label |-> "Management consultants"],
  [pattern |-> Pat("ws", "esg", "communicat"), soc |-> "2431", label |-> "Management consultants"],
  [pattern |-> Pat("ws", "csr", "communicat"), soc |-> "2431", label |-> "Management consultants"],
  [pattern |-> Pat("ws", "project", "manager"), soc |-> "2424", label |-> "Business & financial project mgmt"],
  [pattern |-> Pat("sub", "consult", ""), soc |-> "2431", label |-> "Management consultants"],
  [pattern |-> Pat("sub", "advisory", ""), soc |-> "2431", label |-> "Management consultants"] >>

\* the first rule of SOC_TITLE_MAP whose pattern matches the title
inferSOCCode(title) ==
  LET hits == {i \in 1..Len(SOC_TITLE_MAP) : TestPattern(SOC_TITLE_MAP[i].pattern, TestText(title))}
  IN IF hits = {} THEN [soc |-> NULL, label |-> NULL]
     ELSE LET first == CHOOSE i \in hits : \A j \in hits : i <= j
          IN [soc |-> SOC_TITLE_MAP[first].soc, label |-> SOC_TITLE_MAP[first].label]


(***************************************************************************)
(* parseSalary (scorer.js).  The pound sign is written "#" and the euro    *)
(* sign "@" in model text: neither is a letter, a digit or whitespace.     *)
(* Amounts are exact rationals [n, d] (n/d, d a power of ten), so that the *)
(* decimals, the currency rates and the midpoint round as in the source.   *)
(***************************************************************************)
POUND == "#"
EURO == "@"

\* .replace(/c/g, "")
RemoveChar(s, c) ==
  LET F(i) == IF CharAt(s, i) = c THEN "" ELSE CharAt(s, i) IN MapRange(F, 1, Len(s))

DigitVal(c) == (CHOOSE i \in 1..10 : CharAt(DigitChars, i) = c) - 1

\* the position after the run of digits that starts at i (i when there is none)
DigitsEnd(s, i) ==
  MinOf({j \in i..(Len(s) + 1) : j > Len(s) \/ ~IsDigit(CharAt(s, j))})

RECURSIVE SeqOfSet(_)
\* the elements of a finite set of integers, in increasing order
SeqOfSet(S) == IF S = {} THEN <<>> ELSE <<MinOf(S)>> \o SeqOfSet(S \ {MinOf(S)})

RECURSIVE ParseNat(_)
\* the number written by a string of digits
ParseNat(ds) ==
  IF Len(ds) = 0 THEN 0
  ELSE 10 * ParseNat(SubSeq(ds, 1, Len(ds) - 1)) + DigitVal(CharAt(ds, Len(ds)))

RECURSIVE Pow10(_)
Pow10(k) == IF k = 0 THEN 1 ELSE 10 * Pow10(k - 1)

\* Math.round of the non-negative rational n/d
RoundRat(n, d) == (2 * n + d) \div (2 * d)

NoMatch == [ok |-> FALSE, n |-> 0, d |-> 1]

\* One match of  (\d+(?:\.\d+)?)\s*k?\b  with the digits starting at j, as
\* the backtracking matcher finds it, and the parseFloat of the matched text.
\* Greedy first: all digits, the fraction, all whitespace, the k.
AmountAt(s, j) ==
  LET e1 == DigitsEnd(s, j)
      hasFrac == e1 > j /\ At(s, e1, ".") /\ DigitsEnd(s, e1 + 1) > e1 + 1
      e2 == IF hasFrac THEN DigitsEnd(s, e1 + 1) ELSE e1
      e3 == SkipSpaces(s, e2)
      hasK == At(s, e3, "k")
      wordAt(p) == p <= Len(s) /\ IsWordChar(CharAt(s, p))
      intPart == ParseNat(SubSeq(s, j, e1 - 1))
      fracLen == e2 - e1 - 1
      full == IF hasFrac
              THEN [ok |-> TRUE,
                    n |-> intPart * Pow10(fracLen) + ParseNat(SubSeq(s, e1 + 1, e2 - 1)),
                    d |-> Pow10(fracLen)]
              ELSE [ok |-> TRUE, n |-> intPart, d |-> 1]
  IN IF e1 = j THEN NoMatch
     ELSE IF hasK /\ ~wordAt(e3 + 1) THEN full
     ELSE IF e3 > e2 /\ wordAt(e3) THEN full
     ELSE IF ~wordAt(e2) THEN full
     ELSE IF hasFrac THEN [ok |-> TRUE, n |-> intPart, d |-> 1]
     ELSE NoMatch

\* text.match(/<prefix>\s*(\d+(?:\.\d+)?)\s*k?\b/g): the amounts of all the
\* matches, left to right; spaces tells whether \s* follows the prefix
\* (a match holds no prefix character after its own prefix, so the matches
\* are the prefix positions at which the rest of the pattern matches)
AmountAfter(s, prefixes, spaces, i) ==
  LET here == {p \in prefixes : At(s, i, p)}
  IN IF here = {} THEN NoMatch
     ELSE LET p == CHOOSE q \in here : TRUE
          IN AmountAt(s, IF spaces THEN SkipSpaces(s, i + Len(p)) ELSE i + Len(p))

MatchAmounts(s, prefixes, spaces) ==
  LET starts == SeqOfSet({i \in 1..Len(s) : AmountAfter(s, prefixes, spaces, i).ok})
  IN [k \in 1..Len(starts) |-> AmountAfter(s, prefixes, spaces, starts[k])]

\* if (val < 500) val *= 1000, then val * rate (rate = rn/rd)
Scale(m, rn, rd) ==
  LET n1 == IF m.n < 500 * m.d THEN m.n * 1000 ELSE m.n
  IN [n |-> n1 * rn, d |-> m.d * rd]

\* nums of one currency: scaled, converted, .filter(n => n > 0)
CurrencyNums(matches, rn, rd) ==
  LET scaled == [k \in 1..Len(matches) |-> Scale(matches[k], rn, rd)]
  IN SelectSeq(scaled, LAMBDA v : v.n > 0)

\* Math.round((nums[0] + nums[1]) / 2) or Math.round(nums[0]); NULLNUM when nums is empty
CurrencyResult(nums) ==
  IF Len(nums) >= 2
  THEN RoundRat(nums[1].n * nums[2].d + nums[2].n * nums[1].d, 2 * nums[1].d * nums[2].d)
  ELSE IF Len(nums) = 1 THEN RoundRat(nums[1].n, nums[1].d)
  ELSE NULLNUM

\* the position at which the run of digits holding position i starts
DigitsStart(s, i) ==
  MinOf({j \in 1..i : \A k \in j..i : IsDigit(CharAt(s, k))})

\* text.match(/(\d{4,6})/g).map(Number): a run of digits is cut greedily in
\* pieces of six, and its last piece counts when it has four digits or more
BareNumbers(s) ==
  LET isStart(i) == /\ IsDigit(CharAt(s, i))
                    /\ (i - DigitsStart(s, i)) % 6 = 0
                    /\ Min(DigitsEnd(s, i), i + 6) - i >= 4
      starts == SeqOfSet({i \in 1..Len(s) : isStart(i)})
  IN [k \in 1..Len(starts) |-> ParseNat(SubSeq(s, starts[k], Min(DigitsEnd(s, starts[k]), starts[k] + 6) - 1))]

parseSalary(salaryStr) ==
  IF ~Truthy(salaryStr) THEN NULLNUM
  ELSE
    LET text == ToLower(RemoveChar(salaryStr, ","))
        gbp1 == MatchAmounts(text, {POUND}, FALSE)
        gbpMatch == IF Len(gbp1) > 0 THEN gbp1 ELSE MatchAmounts(text, {"gbp"}, TRUE)
        gbp == CurrencyResult(CurrencyNums(gbpMatch, 1, 1))
        usd == CurrencyResult(CurrencyNums(MatchAmounts(text, {"usd", "$"}, TRUE), 79, 100))
        eur == CurrencyResult(CurrencyNums(MatchAmounts(text, {"eur", EURO}, TRUE), 85, 100))
        bare == SelectSeq(BareNumbers(text), LAMBDA n : n >= 15000 /\ n <= 300000)
    IN IF gbp # NULLNUM THEN gbp
       ELSE IF usd # NULLNUM THEN usd
       ELSE IF eur # NULLNUM THEN eur
       ELSE IF Len(bare) >= 2 THEN (bare[1] + bare[Len(bare)] + 1) \div 2
       ELSE IF Len(bare) = 1 THEN bare[1]
       ELSE NULLNUM


(***************************************************************************)
(* Visa confidence and success probability (scorer.js)                     *)
(***************************************************************************)
\* computeVisaConfidence asking for a salary above the threshold, not at it
computeVisaConfidence_Strict(job) ==
  LET isVerified == job.verified_sponsor = 1
      salaryNum == IF TruthyNum(job.salary_num) THEN job.salary_num ELSE parseSalary(job.salary)
      socInfo == IF Truthy(job.soc_code) /\ job.soc_code \in DOMAIN SOC_GOING_RATES
                 THEN SOC_GOING_RATES[job.soc_code] ELSE [newEntrant |-> NULLNUM]
      threshold == IF socInfo.newEntrant # NULLNUM
                   THEN Max(socInfo.newEntrant, GENERAL_THRESHOLD) ELSE GENERAL_THRESHOLD
  IN IF ~isVerified
     THEN [confidence |-> "red", reason |-> "not on register", threshold |-> NULLNUM]
     ELSE IF ~TruthyNum(salaryNum)
     THEN [confidence |-> "yellow", reason |-> "salary undisclosed", threshold |-> threshold]
     ELSE IF salaryNum > threshold
     THEN [confidence |-> "green",
           reason |-> IF socInfo.newEntrant # NULLNUM THEN "meets SOC minimum" ELSE "meets general threshold",
           threshold |-> threshold]
     ELSE [confidence |-> "yellow", reason |-> "below threshold", threshold |-> threshold]

\* Number.prototype.toLocaleString is not modelled: the reason texts name
\* the case and the threshold, not the formatted figures.
computeVisaConfidence(job) ==
  LET isVerified == job.verified_sponsor = 1
      salaryNum == IF TruthyNum(job.salary_num) THEN job.salary_num ELSE parseSalary(job.salary)
      socInfo == IF Truthy(job.soc_code) /\ job.soc_code \in DOMAIN SOC_GOING_RATES
                 THEN SOC_GOING_RATES[job.soc_code] ELSE [newEntrant |-> NULLNUM]
      threshold == IF socInfo.newEntrant # NULLNUM
                   THEN Max(socInfo.newEntrant, GENERAL_THRESHOLD) ELSE GENERAL_THRESHOLD
  IN IF ~isVerified
     THEN [confidence |-> "red", reason |-> "not on register", threshold |-> NULLNUM]
     ELSE IF ~TruthyNum(salaryNum)
     THEN [confidence |-> "yellow", reason |-> "salary undisclosed", threshold |-> threshold]
     ELSE IF salaryNum >= threshold
     THEN [confidence |-> "green",
           reason |-> IF socInfo.newEntrant # NULLNUM THEN "meets SOC minimum" ELSE "meets general threshold",
           threshold |-> threshold]
     ELSE [confidence |-> "yellow", reason |-> "below threshold", threshold |-> threshold]

\* visaMultiplier * 100
VisaScore(visaConfidence) ==
  CASE visaConfidence = "green" -> 100
    [] visaConfidence = "yellow" -> 55
    [] visaConfidence = "red" -> 15
    [] OTHER -> 30

\* computeSuccessProbability cutting the fraction off instead of rounding
computeSuccessProbability_Floor(matchScore, visaConfidence) ==
  (6 * matchScore + 4 * VisaScore(visaConfidence)) \div 10

\* Math.round(matchScore * 0.6 + visaScore * 0.4)
computeSuccessProbability(matchScore, visaConfidence) ==
  (6 * matchScore + 4 * VisaScore(visaConfidence) + 5) \div 10

(***************************************************************************)
(* Heuristic scorer (scorer.js)                                            *)
(***************************************************************************)
ROLE_PRIORITY_TERMS == <<
  [pattern |-> Pat("ws", "sustainability", "consult"), weight |-> 30, label |-> "Sustainability Consultant"],
  [pattern |-> Pat("ws", "esg", "consult"), weight |-> 28, label |-> "ESG Consulting"],
  [pattern |-> Pat("ws", "sustainability", "communicat"), weight |-> 27, label |-> "Sustainability Communications"],
  [pattern |-> Pat("ws", "esg", "communicat"), weight |-> 26, label |-> "ESG Communications"],
  [pattern |-> Pat("ws", "esg", "analyst"), weight |-> 25, label |-> "ESG Analyst"],
  [pattern |-> Pat("ws", "sustainability", "analyst"), weight |-> 25, label |-> "Sustainability Analyst"],
  [pattern |-> Pat("ws", "climate", "consult"), weight |-> 25, label |-> "Climate Consulting"],
  [pattern |-> Pat("ws", "sustainability", "report"), weight |-> 24, label |-> "Sustainability Reporting"],
  [pattern |-> Pat("ws", "esg", "report"), weight |-> 23, label |-> "ESG Reporting"],
  [pattern |-> Pat("ws", "csr", "communicat"), weight |-> 22, label |-> "CSR Communications"],
  [pattern |-> Pat("ws", "sustainability", "manager"), weight |-> 21, label |-> "Sustainability Manager"],
  [pattern |-> Pat("ws", "esg", "manager"), weight |-> 20, label |-> "ESG Manager"],
  [pattern |-> Pat("ws", "esg", "advisor"), weight |-> 20, label |-> "ESG Advisory"],
  [pattern |-> Pat("ws", "sustainability", "director"), weight |-> 19, label |-> "Sustainability Director"],
  [pattern |-> Pat("ws", "sustainability", "lead"), weight |-> 19, label |-> "Sustainability Lead"],
  [pattern |-> Pat("ws", "climate", "risk"), weight |-> 18, label |-> "Climate Risk"],
  [pattern |-> Pat("ws", "stakeholder", "engagement"), weight |-> 18, label |-> "Stakeholder Engagement"],
  [pattern |-> Pat("sub", "sustainability", ""), weight |-> 15, label |-> "Sustainability"],
  [pattern |-> Pat("word", "esg", ""), weight |-> 15, label |-> "ESG"],
  [pattern |-> Pat("sub", "climate", ""), weight |-> 12, label |-> "Climate"],
  [pattern |-> Pat("sub", "carbon", ""), weight |-> 12, label |-> "Carbon"],
  [pattern |-> Pat("dot", "net", "zero"), weight |-> 12, label |-> "Net Zero"],
  [pattern |-> Pat("word", "csr", ""), weight |-> 12, label |-> "CSR"],
  [pattern |-> Pat("sub", "environment", ""), weight |-> 10, label |-> "Environment"],
  [pattern |-> Pat("sub", "consult", ""), weight |-> 0, label |-> "_consulting"],
  [pattern |-> Pat("sub", "advisory", ""), weight |-> 0, label |-> "_advisory"],
  [pattern |-> Pat("sub", "communicat", ""), weight |-> 0, label |-> "_communications"] >>

ESG_DEEP_TERMS == <<
  "tcfd", "sfdr", "csrd", "gri", "scope 1", "scope 2", "scope 3",
  "double materiality", "taxonomy", "sdg", "green bond",
  "decarbonisation", "decarbonization", "circular economy",
  "energy transition", "biodiversity", "stakeholder engagement",
  "responsible investment", "impact investing",
  "sustainability report", "non-financial reporting", "integrated reporting",
  "esg disclosure", "sustainability disclosure", "materiality assessment",
  "corporate communications", "sustainability communications",
  "science-based targets", "sbti", "net zero commitment",
  "just transition", "climate adaptation", "nature-based" >>

VISA_SIGNAL_TERMS == <<
  "visa sponsor", "sponsorship", "skilled worker visa",
  "right to work", "will sponsor", "visa support",
  "relocation support", "relocation package", "international candidates",
  "work permit" >>

\* job.title || "" and friends
OrEmpty(s) == IF Truthy(s) THEN s ELSE ""

\* the terms of a list that occur in the text, in list order
TermHits(terms, text) == SelectSeq(terms, LAMBDA t : Includes(text, t))

RECURSIVE RoleLoop(_, _, _)
\* Step 1 of computeHeuristicScore: the loop over ROLE_PRIORITY_TERMS from
\* term i on, with the best match so far in acc
RoleLoop(lowered, i, acc) ==
  IF i > Len(ROLE_PRIORITY_TERMS) THEN acc
  ELSE LET term == ROLE_PRIORITY_TERMS[i]
       IN IF TestPattern(term.pattern, lowered) /\ term.weight > acc.rolePts
          THEN RoleLoop(lowered, i + 1, [rolePts |-> term.weight, roleLabel |-> term.label])
          ELSE RoleLoop(lowered, i + 1, acc)

RoleMatch(title) == RoleLoop(ToLower(OrEmpty(title)), 1, [rolePts |-> 0, roleLabel |-> ""])

\* String.prototype.toUpperCase
ToUpper(s) ==
  LET F(i) == IF IsLower(CharAt(s, i))
              THEN CharAt(UpperChars, CHOOSE k \in 1..26 : CharAt(LowerChars, k) = CharAt(s, i))
              ELSE CharAt(s, i)
  IN MapRange(F, 1, Len(s))

RECURSIVE Join(_, _)
\* Array.prototype.join
Join(seq, sep) ==
  IF Len(seq) = 0 THEN ""
  ELSE IF Len(seq) = 1 THEN seq[1]
  ELSE seq[1] \o sep \o Join(Tail(seq), sep)

\* reasons.push(r) when cond
PushIf(cond, r) == IF cond THEN <<r>> ELSE <<>>

\* the heuristic score left as the points add up to, with no cap
CapAt100_Off(score) == score

\* score = Math.min(score, 100)
CapAt100(score) == Min(score, 100)

\* the sponsor bonus granted in full whatever the context
SponsorBonus_Full(hasESGContext) == 20

\* const sponsorBonus = hasESGContext ? 20 : 5
SponsorBonus(hasESGContext) == IF hasESGContext THEN 20 ELSE 5

computeHeuristicScore(job) ==
  LET titleLower == ToLower(OrEmpty(job.title))
      descLower == ToLower(stripHtml(OrEmpty(job.description)))
      allText == titleLower \o " " \o descLower
      \* 1. role priority match
      role == RoleMatch(job.title)
      rolePts == role.rolePts
      roleLabel == role.roleLabel
      r1 == PushIf(roleLabel # "" /\ ~StartsWith(roleLabel, "_"),
                   "Title matches \"" \o roleLabel \o "\"")
      \* 2. depth terms
      esgHits == TermHits(ESG_DEEP_TERMS, allText)
      esgDepthPts == Min(3 * Len(esgHits), 25)
      hasESGContext == Len(esgHits) > 0 \/ rolePts >= 10
      r2 == PushIf(Len(esgHits) > 0,
                   "References " \o Join([k \in 1..Min(3, Len(esgHits)) |-> ToUpper(esgHits[k])], ", "))
      \* 3. consulting / communications bonus
      isConsult == \E w \in {"consult", "advisory", "advisor"} : Includes(titleLower, w)
      isComms == \E w \in {"communicat", "report", "disclosure"} : Includes(titleLower, w)
      consultPts == IF hasESGContext /\ isConsult THEN 8 ELSE 0
      commsPts == IF hasESGContext /\ isComms THEN 6 ELSE 0
      r3 == PushIf(hasESGContext /\ isConsult /\ roleLabel # "" /\ StartsWith(roleLabel, "_"),
                   "Consulting/advisory role with ESG context")
            \o PushIf(hasESGContext /\ isComms /\ roleLabel # "" /\ StartsWith(roleLabel, "_"),
                      "Communications/reporting role with ESG context")
      \* 4. verified sponsor
      sponsorPts == IF job.verified_sponsor = 1 THEN SponsorBonus(hasESGContext)
                    ELSE IF job.visa_sponsorship = 1 THEN (IF hasESGContext THEN 10 ELSE 3)
                    ELSE 0
      r4 == IF job.verified_sponsor = 1 THEN <<"Verified UK visa sponsor">>
            ELSE IF job.visa_sponsorship = 1 THEN <<"Listed as visa-sponsoring">>
            ELSE <<>>
      \* 5. visa signals
      visaPts == Min(3 * Len(TermHits(VISA_SIGNAL_TERMS, allText)), 10)
      before5 == r1 \o r2 \o r3 \o r4
      r5 == PushIf(visaPts > 0 /\ ~(\E k \in 1..Len(before5) : Includes(before5[k], "visa")),
                   "Description mentions visa/sponsorship support")
      \* 6. location
      locLower == ToLower(OrEmpty(job.location))
      isLondon == Includes(locLower, "london")
      isUK == Includes(locLower, "uk") \/ Includes(locLower, "united kingdom")
      locPts == IF isLondon THEN 10 ELSE IF isUK THEN 7 ELSE IF job.remote = 1 THEN 5 ELSE 0
      r6 == IF isLondon THEN <<"Based in London">>
            ELSE IF isUK THEN <<"Based in UK">>
            ELSE IF job.remote = 1 THEN <<"Remote-friendly">> ELSE <<>>
      \* 7. salary transparency
      salaryPts == IF Truthy(job.salary) THEN 5 ELSE 0
      r7 == PushIf(Truthy(job.salary), "Salary disclosed")
      sum == rolePts + esgDepthPts + consultPts + commsPts + sponsorPts + visaPts + locPts + salaryPts
      \* 8. penalty
      penalised == ~hasESGContext /\ rolePts = 0
      afterPenalty == IF penalised THEN Max(sum - 15, 0) ELSE sum
      r8 == PushIf(penalised, "No clear ESG relevance in title or description")
  IN [score |-> CapAt100(afterPenalty),
      reasons |-> r1 \o r2 \o r3 \o r4 \o r5 \o r6 \o r7 \o r8]

\* the dash of the last sentence is written "-"
generateHeuristicSummary(job, score, reasons) ==
  LET title == IF Truthy(job.title) THEN job.title ELSE "this role"
      company == IF Truthy(job.company) THEN job.company ELSE "this company"
      head == IF score >= 70
              THEN "This " \o title \o " role at " \o company
                   \o " is a strong match for Alexis's ESG consulting and communications career goals"
              ELSE IF score >= 40
              THEN "This " \o title \o " position at " \o company
                   \o " aligns with Alexis's interest in ESG, sustainability, and stakeholder communications"
              ELSE "This " \o title \o " role at " \o company
                   \o " has some relevance to Alexis's ESG consulting and communications path"
      esgReasons == SelectSeq(reasons, LAMBDA r : Includes(r, "References") \/ Includes(r, "Title matches"))
      sentence1 == head \o (IF Len(esgReasons) > 0 THEN ", with " \o ToLower(esgReasons[1]) ELSE "") \o "."
      some(w) == \E k \in 1..Len(reasons) : Includes(reasons[k], w)
      sentence2 ==
        IF some("Verified UK visa sponsor")
        THEN company \o " is a verified UK visa sponsor on the Home Office register, making visa support highly likely."
        ELSE IF some("visa") \/ some("sponsorship") \/ some("Visa")
        THEN "The listing signals visa sponsorship availability, which is encouraging for US citizens seeking London relocation."
        ELSE IF job.remote = 1
        THEN "As a remote role, it may not require visa sponsorship initially, though relocation could be explored later."
        ELSE "Visa sponsorship status is not explicitly stated - Alexis should confirm this directly with the employer."
  IN sentence1 \o " " \o sentence2


(***************************************************************************)
(* AI scorer and scoreJob (scorer.js)                                      *)
(*                                                                         *)
(* A reply of the remote model is what computeAIScore can observe of it:   *)
(*   kind = "network_error"  fetch rejects                                 *)
(*          "http_error"     res.ok is false                               *)
(*          "bad_body"       res.json() rejects                            *)
(*          "no_json"        the text holds no {...} (or no text at all)   *)
(*          "malformed"      JSON.parse throws on the {...}                *)
(*          "object"         JSON.parse returns an object                  *)
(* For an object, hasScore/hasSummary tell whether the fields are there,   *)
(* score is the number written (NAN for a value parseInt cannot read).     *)
(***************************************************************************)
Reply(kind, hasScore, score, hasSummary, summary) ==
  [kind |-> kind, hasScore |-> hasScore, score |-> score,
   hasSummary |-> hasSummary, summary |-> summary]

NoReply == Reply("none", FALSE, NAN, FALSE, "")

\* parseInt(parsed.score)
ParseIntScore(reply) == IF reply.hasScore THEN reply.score ELSE NAN

\* the result of computeAIScore: ok = FALSE stands for "return null"
computeAIScore(job, apiKey, reply) ==
  IF reply.kind # "object"
  THEN [ok |-> FALSE, score |-> NULLNUM, summary |-> NULL]
  ELSE LET parsed == ParseIntScore(reply)
           orFifty == IF TruthyNum(parsed) THEN parsed ELSE 50
       IN [ok |-> TRUE,
           score |-> Max(1, Min(100, orFifty)),
           summary |-> IF reply.hasSummary /\ Truthy(reply.summary) THEN reply.summary ELSE ""]

\* The posting as scoreJobs pushes it: {...job, ...scored}, job carrying the
\* fields scoreJob has set on it.  path records which scorer gave the score.
scoreJob(job, anthropicKey, reply) ==
  LET soc == inferSOCCode(job.title).soc
      salary_num == parseSalary(job.salary)
      job1 == [job EXCEPT !.soc_code = soc, !.salary_num = salary_num]
      visa == computeVisaConfidence(job1)
      job2 == [job1 EXCEPT !.visa_confidence = visa.confidence]
      aiResult == IF Truthy(anthropicKey) THEN computeAIScore(job2, anthropicKey, reply)
                  ELSE [ok |-> FALSE, score |-> NULLNUM, summary |-> NULL]
      heur == computeHeuristicScore(job2)
      match_score == IF aiResult.ok THEN aiResult.score ELSE heur.score
      ai_summary == IF aiResult.ok THEN aiResult.summary
                    ELSE generateHeuristicSummary(job2, heur.score, heur.reasons)
  IN [job2 EXCEPT !.match_score = match_score,
                  !.ai_summary = ai_summary,
                  !.success_probability = computeSuccessProbability(match_score, visa.confidence),
                  !.path = IF aiResult.ok THEN "ai" ELSE "heuristic"]

\* A posting as a source fetcher builds it and enrichJob completes it; the
\* fields job_type, company_logo, posted_at and fetched_at, which nothing
\* reads before storage, are left out.  The scorer's fields start unset, and
\* no fetcher sets status, notes or is_bcorp.
Posting(id, title, company, location, description, url, source, tags, remote, visa_sponsorship, salary, verified_sponsor, sponsor_rating, role_priority) ==
  [id |-> id, title |-> title, company |-> company, location |-> location,
   description |-> description, url |-> url, source |-> source, tags |-> tags,
   remote |-> remote, visa_sponsorship |-> visa_sponsorship, salary |-> salary,
   verified_sponsor |-> verified_sponsor, sponsor_rating |-> sponsor_rating,
   role_priority |-> role_priority, match_score |-> 0, ai_summary |-> NULL,
   soc_code |-> NULL, salary_num |-> NULLNUM, visa_confidence |-> NULL,
   success_probability |-> NULLNUM, path |-> "none",
   status |-> NULL, notes |-> NULL, is_bcorp |-> NULLNUM]


(***************************************************************************)
(* Storage (db.js): the jobs table is a function from id to row            *)
(***************************************************************************)
VALID_STATUSES == <<"new", "to_apply", "applied", "interviewing", "offer", "rejected", "archived">>

\* the statuses updateStatus accepts, with one the list does not have
ValidStatusSet_WithDone == {VALID_STATUSES[i] : i \in 1..Len(VALID_STATUSES)} \cup {"done"}

\* VALID_STATUSES.includes(status)
ValidStatusSet == {VALID_STATUSES[i] : i \in 1..Len(VALID_STATUSES)}

\* x || 0 and x || null on numbers
NumOr0(n) == IF TruthyNum(n) THEN n ELSE 0
NumOrNull(n) == IF TruthyNum(n) THEN n ELSE NULLNUM
\* x || null on text
TextOrNull(t) == IF Truthy(t) THEN t ELSE NULL

\* COALESCE((SELECT col FROM jobs WHERE id = @id), @value)
Coalesce(db, id, col, value) ==
  IF id \in DOMAIN db /\ db[id][col] # NULL THEN db[id][col] ELSE value

\* the columns declared NOT NULL that the statement binds from the row
\* (fetched_at, always set by the fetchers, is not modelled)
NotNullViolated(row) ==
  \E col \in {"title", "company", "location", "url", "source"} : row[col] = NULL

\* UpsertRow binding status and notes straight from the row, without the
\* COALESCE over the stored value
UpsertRow_NoCoalesce(db, row) ==
  LET stored ==
        [id |-> row.id, title |-> row.title, company |-> row.company,
         location |-> row.location, description |-> row.description,
         url |-> row.url, source |-> row.source, tags |-> row.tags,
         remote |-> row.remote, visa_sponsorship |-> row.visa_sponsorship,
         salary |-> row.salary,
         saved |-> 0,
         verified_sponsor |-> NumOr0(row.verified_sponsor),
         sponsor_rating |-> TextOrNull(row.sponsor_rating),
         match_score |-> NumOr0(row.match_score),
         ai_summary |-> TextOrNull(row.ai_summary),
         role_priority |-> NumOr0(row.role_priority),
         status |-> IF Truthy(row.status) THEN row.status ELSE "new",
         notes |-> TextOrNull(row.notes),
         soc_code |-> TextOrNull(row.soc_code),
         salary_num |-> NumOrNull(row.salary_num),
         visa_confidence |-> IF Truthy(row.visa_confidence) THEN row.visa_confidence ELSE "unknown",
         success_probability |-> NumOr0(row.success_probability),
         is_bcorp |-> NumOr0(row.is_bcorp)]
  IN [k \in (DOMAIN db) \cup {row.id} |-> IF k = row.id THEN stored ELSE db[k]]

\* One stmt.run of upsertJobs: INSERT OR REPLACE deletes the row of the same
\* id and inserts the bound values; a column the statement does not name
\* (saved) takes its DEFAULT.
UpsertRow(db, row) ==
  LET stored ==
        [id |-> row.id, title |-> row.title, company |-> row.company,
         location |-> row.location, description |-> row.description,
         url |-> row.url, source |-> row.source, tags |-> row.tags,
         remote |-> row.remote, visa_sponsorship |-> row.visa_sponsorship,
         salary |-> row.salary,
         saved |-> 0,
         verified_sponsor |-> NumOr0(row.verified_sponsor),
         sponsor_rating |-> TextOrNull(row.sponsor_rating),
         match_score |-> NumOr0(row.match_score),
         ai_summary |-> TextOrNull(row.ai_summary),
         role_priority |-> NumOr0(row.role_priority),
         status |-> Coalesce(db, row.id, "status", IF Truthy(row.status) THEN row.status ELSE "new"),
         notes |-> Coalesce(db, row.id, "notes", TextOrNull(row.notes)),
         soc_code |-> TextOrNull(row.soc_code),
         salary_num |-> NumOrNull(row.salary_num),
         visa_confidence |-> IF Truthy(row.visa_confidence) THEN row.visa_confidence ELSE "unknown",
         success_probability |-> NumOr0(row.success_probability),
         is_bcorp |-> NumOr0(row.is_bcorp)]
  IN [k \in (DOMAIN db) \cup {row.id} |-> IF k = row.id THEN stored ELSE db[k]]

RECURSIVE UpsertLoop(_, _, _)
\* the loop of the transaction over rows[i..]; threw when a stmt.run throws
UpsertLoop(db, rows, i) ==
  IF i > Len(rows) THEN [threw |-> FALSE, db |-> db]
  ELSE IF NotNullViolated(rows[i]) THEN [threw |-> TRUE, db |-> db]
  ELSE UpsertLoop(UpsertRow(db, rows[i]), rows, i + 1)

\* upsertJobs(jobs): the transaction commits all rows or, when a statement
\* throws, rolls back to the table as it was and rethrows
upsertJobs(db, rows) ==
  LET tx == UpsertLoop(db, rows, 1)
  IN IF tx.threw
     THEN [threw |-> TRUE, error |-> "SqliteError: NOT NULL constraint failed", db |-> db, ret |-> NULLNUM]
     ELSE [threw |-> FALSE, error |-> NULL, db |-> tx.db, ret |-> Len(rows)]

\* UPDATE jobs SET col = value WHERE id = @id
UpdateCol(db, id, col, value) ==
  [k \in DOMAIN db |-> IF k = id THEN [db[k] EXCEPT ![col] = value] ELSE db[k]]

toggleSave(db, jobId) ==
  LET db1 == IF jobId \in DOMAIN db
             THEN UpdateCol(db, jobId, "saved", IF db[jobId].saved = 1 THEN 0 ELSE 1)
             ELSE db
  IN [threw |-> FALSE, error |-> NULL, db |-> db1,
      ret |-> IF jobId \in DOMAIN db1 THEN db1[jobId].saved ELSE 0]

InvalidStatusError(status) ==
  "Invalid status: " \o status \o ". Must be one of: " \o Join(VALID_STATUSES, ", ")

\* updateStatus storing "new" for a status it does not know, without an error
updateStatus_Coerce(db, jobId, status) ==
  LET db1 == UpdateCol(db, jobId, "status", IF status \in ValidStatusSet THEN status ELSE "new")
  IN [threw |-> FALSE, error |-> NULL, db |-> db1,
      ret |-> IF jobId \in DOMAIN db1 THEN db1[jobId].status ELSE NULL]

updateStatus(db, jobId, status) ==
  IF status \notin ValidStatusSet
  THEN [threw |-> TRUE, error |-> InvalidStatusError(status), db |-> db, ret |-> NULL]
  ELSE LET db1 == UpdateCol(db, jobId, "status", status)
       IN [threw |-> FALSE, error |-> NULL, db |-> db1,
           ret |-> IF jobId \in DOMAIN db1 THEN db1[jobId].status ELSE NULL]

updateNotes(db, jobId, notes) ==
  LET db1 == UpdateCol(db, jobId, "notes", notes)
  IN [threw |-> FALSE, error |-> NULL, db |-> db1,
      ret |-> IF jobId \in DOMAIN db1 THEN db1[jobId].notes ELSE NULL]


(***************************************************************************)
(* Sponsor register lookup (sponsor.js)                                    *)
(***************************************************************************)
\* common abbreviations and the official names they stand for
ALIASES ==
  [key \in {"pwc", "ey", "bain", "wsp", "arup", "mott macdonald", "mckinsey", "bcg"} |->
     CASE key = "pwc" -> "PricewaterhouseCoopers LLP"
       [] key = "ey" -> "Ernst & Young LLP"
       [] key = "bain" -> "Bain & Company"
       [] key = "wsp" -> "WSP Group Limited"
       [] key = "arup" -> "Ove Arup & Partners International Limited"
       [] key = "mott macdonald" -> "Mott MacDonald Limited"
       [] key = "mckinsey" -> "McKinsey & Company Inc. United Kingdom"
       [] key = "bcg" -> "The Boston Consulting Group UK LLP"]

\* the words of /\b(ltd|limited|llp|plc|inc|corp|corporation|gmbh|ag|group|holdings|uk)\b/gi
COMPANY_SUFFIXES ==
  {"ltd", "limited", "llp", "plc", "inc", "corp", "corporation", "gmbh", "ag", "group", "holdings", "uk"}

\* the maximal run of \w characters of s that holds position i
WordAround(s, i) ==
  LET lo == MinOf({j \in 1..i : \A k \in j..i : IsWordChar(CharAt(s, k))})
      hi == MinOf({j \in i..Len(s) : j = Len(s) \/ ~IsWordChar(CharAt(s, j + 1))})
  IN SubSeq(s, lo, hi)

\* a match of the suffix pattern is a whole word that is one of the suffixes
InSuffixWord(s, i) == IsWordChar(CharAt(s, i)) /\ WordAround(s, i) \in COMPANY_SUFFIXES

\* s without the characters at the positions where Drop holds
RemoveWhere(s, Drop(_)) ==
  LET F(i) == IF Drop(i) THEN "" ELSE CharAt(s, i) IN MapRange(F, 1, Len(s))

normalise(name) ==
  LET lowered == ToLower(name)
      unquoted == RemoveWhere(lowered, LAMBDA i : CharAt(lowered, i) \in {"\"", "'"})
      unsuffixed == RemoveWhere(unquoted, LAMBDA i : InSuffixWord(unquoted, i))
      plain == RemoveWhere(unsuffixed,
                 LAMBDA i : LET c == CharAt(unsuffixed, i)
                            IN ~(IsLower(c) \/ IsDigit(c) \/ IsSpace(c) \/ c = "&"))
  IN Trim(CollapseSpaces(plain))

\* no company name taken for a placeholder
GENERIC_COMPANY_NAMES_None == {}

GENERIC_COMPANY_NAMES ==
  {"unknown", "see listing", "confidential", "not disclosed",
   "anonymous", "various", "multiple", "tbc", "tba",
   "not specified", "undisclosed", "company", "employer",
   "hiring company", "top company", "leading company"}

NotVerified ==
  [verified |-> FALSE, rating |-> NULL, officialName |-> NULL, fuzzyMatch |-> FALSE, threw |-> FALSE]

\* ALIASES[key] of a key that is no alias but a property every object
\* inherits: the value is a function, and normalise called on it throws
InheritedKeys == {"constructor"}
AliasLookupThrows == [NotVerified EXCEPT !.threw = TRUE]

\* the entry found, as checkSponsor returns it
Verified(entry, fuzzy) ==
  [verified |-> TRUE, rating |-> entry.rating, officialName |-> entry.name,
   fuzzyMatch |-> fuzzy, threw |-> FALSE]

\* the partial match accepting a contained name of any length ratio
PartialMatch_AnyRatio(key, sponsorKey) ==
  /\ Len(sponsorKey) >= 5
  /\ LET shorter == IF Len(key) <= Len(sponsorKey) THEN key ELSE sponsorKey
         longer == IF Len(key) > Len(sponsorKey) THEN key ELSE sponsorKey
     IN Includes(longer, shorter)

\* the partial match of checkSponsor between the key and one register key
PartialMatch(key, sponsorKey) ==
  /\ Len(sponsorKey) >= 5
  /\ LET shorter == IF Len(key) <= Len(sponsorKey) THEN key ELSE sponsorKey
         longer == IF Len(key) > Len(sponsorKey) THEN key ELSE sponsorKey
     IN 2 * Len(shorter) >= Len(longer) /\ Includes(longer, shorter)

\* checkSponsor(companyName) on the register state reg: reg.loaded is
\* "sponsorSet is not null", reg.map the entries of sponsorMap in insertion order
checkSponsor(reg, companyName) ==
  IF ~reg.loaded \/ ~Truthy(companyName) THEN NotVerified
  ELSE LET key0 == normalise(companyName)
       IN IF key0 = "" \/ key0 \in GENERIC_COMPANY_NAMES THEN NotVerified
          ELSE IF key0 \in InheritedKeys THEN AliasLookupThrows
          ELSE LET key == IF key0 \in DOMAIN ALIASES THEN normalise(ALIASES[key0]) ELSE key0
                   exact == {k \in 1..Len(reg.map) : reg.map[k].key = key}
                   partial == {k \in 1..Len(reg.map) : PartialMatch(key, reg.map[k].key)}
               IN IF exact # {}
                  THEN Verified(reg.map[MinOf(exact)], FALSE)
                  ELSE IF Len(key) >= 5 /\ partial # {}
                  THEN Verified(reg.map[MinOf(partial)], TRUE)
                  ELSE NotVerified

\* checkBCorp(companyName) on the directory state dir: dir.loaded is
\* "bcorpSet is not null", dir.set the normalised names of bcorpSet
checkBCorp(dir, companyName) ==
  IF ~dir.loaded \/ ~Truthy(companyName) THEN FALSE
  ELSE LET key == normalise(companyName)
       IN IF key = "" \/ Len(key) < 3 THEN FALSE
          ELSE IF key \in dir.set THEN TRUE
          ELSE /\ Len(key) >= 5
               /\ \E bcKey \in dir.set :
                    /\ Len(bcKey) >= 5
                    /\ LET shorter == IF Len(key) <= Len(bcKey) THEN key ELSE bcKey
                           longer == IF Len(key) > Len(bcKey) THEN key ELSE bcKey
                       IN 10 * Len(shorter) >= 6 * Len(longer) /\ Includes(longer, shorter)

\* one entry of sponsorMap as parseCSV stores it for an organisation
RegisterEntry(orgName, rating) ==
  [key |-> normalise(orgName), name |-> orgName,
   rating |-> IF Includes(rating, "A rating") THEN "A"
              ELSE IF Includes(rating, "B rating") THEN "B" ELSE "Unknown"]

(***************************************************************************)
(* Relevance filter, role priority and enrichment (fetcher.js)             *)
(***************************************************************************)
ESG_STRONG == <<
  "esg", "sustainability", "sustainable development", "climate change",
  "carbon", "net zero", "net-zero", "decarbonisation", "decarbonization",
  "energy transition", "circular economy", "cleantech", "ghg", "emissions",
  "sdg", "tcfd", "sfdr", "csrd", "gri reporting", "gri standards",
  "scope 1", "scope 2", "scope 3", "double materiality", "taxonomy regulation",
  "green bond", "green finance", "sustainable finance",
  "climate risk", "climate consulting", "climate adaptation", "climate mitigation",
  "esg consulting", "esg advisory", "esg analyst", "esg reporting",
  "esg communications", "sustainability communications",
  "sustainability consultant", "sustainability reporting",
  "sustainability disclosure", "non-financial reporting", "integrated reporting",
  "responsible investment", "impact investing",
  "biodiversity", "nature-based", "just transition",
  "csr", "corporate social responsibility",
  "social impact", "impact assessment",
  "b corp", "science-based targets", "sbti" >>

ESG_WEAK == <<
  "impact", "responsible", "governance", "environmental",
  "stewardship", "ethical", "purpose-driven", "stakeholder engagement",
  "renewable", "dei", "diversity equity inclusion",
  "corporate governance", "responsible business",
  "non-profit", "nonprofit", "ngo", "charity", "social enterprise",
  "ethical investment" >>

isESGRelated_TwoWeak(title, description, tags) ==
  LET titleLower == ToLower(OrEmpty(title))
      allText == titleLower \o " " \o ToLower(OrEmpty(description)) \o " " \o ToLower(OrEmpty(tags))
  IN \/ Len(TermHits(ESG_STRONG, allText)) > 0
     \/ Len(TermHits(ESG_WEAK, titleLower)) > 0
     \/ Len(TermHits(ESG_WEAK, allText)) >= 2

isESGRelated(title, description, tags) ==
  LET titleLower == ToLower(OrEmpty(title))
      allText == titleLower \o " " \o ToLower(OrEmpty(description)) \o " " \o ToLower(OrEmpty(tags))
  IN \/ Len(TermHits(ESG_STRONG, allText)) > 0
     \/ Len(TermHits(ESG_WEAK, titleLower)) > 0
     \/ Len(TermHits(ESG_WEAK, allText)) >= 3

\* the alternatives of the regular expression ESG_ROLE_WORDS (flag i)
ESG_ROLE_WORDS == <<
  "consultant", "consult", "advisor", "advisory", "analyst", "communicat", "report",
  "strateg", "sustainab", "esg", "climate", "carbon", "environment", "csr", "planner",
  "engagement" >>

\* ESG_ROLE_WORDS.test(title): the argument is converted to a string first
RoleWordsTest(title) ==
  LET str == IF title = NULL THEN "null" ELSE title
  IN Len(TermHits(ESG_ROLE_WORDS, ToLower(str))) > 0

\* what a relevance filter hands back, or the TypeError it throws
Relevant(value) == [threw |-> FALSE, value |-> value]
RelevanceThrows == [threw |-> TRUE, value |-> FALSE]

isSearchESGRelevant_AnyQuery(title, snippet, searchKeywords) ==
  IF isESGRelated(title, snippet, "") THEN Relevant(TRUE)
  ELSE IF searchKeywords = NULL THEN RelevanceThrows
  ELSE Relevant(RoleWordsTest(title))

isSearchESGRelevant(title, snippet, searchKeywords) ==
  IF isESGRelated(title, snippet, "") THEN Relevant(TRUE)
  ELSE IF searchKeywords = NULL THEN RelevanceThrows
  ELSE LET searchHasESG == Len(TermHits(ESG_STRONG, ToLower(searchKeywords))) > 0
       IN Relevant(searchHasESG /\ RoleWordsTest(title))

ROLE_PRIORITY_PATTERNS == <<
  [re |-> Pat("ws", "sustainability", "consultant"), priority |-> 100],
  [re |-> Pat("ws", "esg", "analyst"), priority |-> 95],
  [re |-> Pat("ws", "esg", "consult"), priority |-> 90],
  [re |-> Pat("ws", "sustainability", "analyst"), priority |-> 88],
  [re |-> Pat("ws", "climate", "consult"), priority |-> 85],
  [re |-> Pat("ws", "sustainability", "manager"), priority |-> 80],
  [re |-> Pat("ws", "esg", "manager"), priority |-> 78],
  [re |-> Pat("ws", "esg", "advisor"), priority |-> 75],
  [re |-> Pat("ws", "sustainability", "director"), priority |-> 72],
  [re |-> Pat("ws", "sustainability", "lead"), priority |-> 70],
  [re |-> Pat("ws", "climate", "risk"), priority |-> 68],
  [re |-> Pat("sub", "esg", ""), priority |-> 50],
  [re |-> Pat("sub", "sustainability", ""), priority |-> 48],
  [re |-> Pat("sub", "climate", ""), priority |-> 40],
  [re |-> Pat("sub", "environment", ""), priority |-> 35],
  [re |-> Pat("sub", "consult", ""), priority |-> 20],
  [re |-> Pat("sub", "advisory", ""), priority |-> 20],
  [re |-> Pat("sub", "impact", ""), priority |-> 15] >>

getRolePriority(title) ==
  LET lowered == TestText(title)
      hits == {k \in 1..Len(ROLE_PRIORITY_PATTERNS) : TestPattern(ROLE_PRIORITY_PATTERNS[k].re, lowered)}
  IN IF hits = {} THEN 0 ELSE ROLE_PRIORITY_PATTERNS[MinOf(hits)].priority

enrichJob_NoSponsorCheck(reg, rawJob) ==
  [rawJob EXCEPT
     !.verified_sponsor = 0,
     !.sponsor_rating = NULL,
     !.role_priority = getRolePriority(rawJob.title),
     !.match_score = NumOr0(rawJob.match_score),
     !.ai_summary = TextOrNull(rawJob.ai_summary)]

\* enrichJob(rawJob) on the register state reg
enrichJob(reg, rawJob) ==
  LET sponsorResult == checkSponsor(reg, rawJob.company)
  IN [rawJob EXCEPT
        !.verified_sponsor = IF sponsorResult.verified THEN 1 ELSE 0,
        !.sponsor_rating = IF sponsorResult.verified THEN sponsorResult.rating ELSE NULL,
        !.visa_sponsorship = IF sponsorResult.verified THEN 1 ELSE rawJob.visa_sponsorship,
        !.role_priority = getRolePriority(rawJob.title),
        !.match_score = NumOr0(rawJob.match_score),
        !.ai_summary = TextOrNull(rawJob.ai_summary)]


(***************************************************************************)
(* Source fetchers (fetcher.js).  Every request of a fetcher ends in one   *)
(* of "ok" (res.ok and a body that parses), "http_error" (!res.ok) and     *)
(* "network_error" (fetch rejects); net maps a request to its outcome and  *)
(* feed holds the items the sources list.  An item field the source left   *)
(* out is NULL.                                                            *)
(***************************************************************************)
REMOTIVE_SEARCHES ==
  <<"sustainability consultant", "esg analyst", "esg", "sustainability", "climate", "consulting">>

RemotiveRequest(query) == "remotive:" \o query

RemotiveKeeps(query, job) ==
  LET loc == ToLower(OrEmpty(job.candidate_required_location))
      isGlobal == Includes(loc, "worldwide") \/ Includes(loc, "anywhere") \/ loc = ""
      isUK == \/ Includes(loc, "uk") \/ Includes(loc, "united kingdom") \/ Includes(loc, "europe")
              \/ Includes(loc, "london") \/ Includes(loc, "emea")
  IN /\ isGlobal \/ isUK
     /\ ~(query = "consulting" /\ ~isESGRelated(job.title, OrEmpty(job.description), OrEmpty(job.category)))

RemotivePosting(reg, job) ==
  enrichJob(reg,
    Posting("remotive-" \o job.id, job.title, job.company_name,
            IF Truthy(job.candidate_required_location) THEN job.candidate_required_location
            ELSE "Remote - Worldwide",
            OrEmpty(job.description), job.url, "Remotive", OrEmpty(job.category),
            1, 0, TextOrNull(job.salary), 0, NULL, 0))

RECURSIVE RemotiveJobLoop(_, _, _, _, _)
\* for (const job of data.jobs || []) from item k on; acc is <<seen, jobs>>
RemotiveJobLoop(reg, query, items, k, acc) ==
  IF k > Len(items) THEN acc
  ELSE LET job == items[k]
           acc1 == [acc EXCEPT !.seen = @ \cup {job.id}]
       IN IF job.id \in acc.seen THEN RemotiveJobLoop(reg, query, items, k + 1, acc)
          ELSE IF ~RemotiveKeeps(query, job) THEN RemotiveJobLoop(reg, query, items, k + 1, acc1)
          ELSE RemotiveJobLoop(reg, query, items, k + 1,
                               [acc1 EXCEPT !.jobs = Append(@, RemotivePosting(reg, job))])

RECURSIVE RemotiveQueryLoop(_, _, _, _, _)
\* for (const query of searches) from search q on: a response that is not
\* ok is skipped, a rejected fetch is caught and logged; both go on with the
\* next search
RemotiveQueryLoop(reg, net, feed, q, acc) ==
  IF q > Len(REMOTIVE_SEARCHES) THEN acc.jobs
  ELSE LET query == REMOTIVE_SEARCHES[q]
       IN IF net[RemotiveRequest(query)] = "ok"
          THEN RemotiveQueryLoop(reg, net, feed, q + 1,
                                 RemotiveJobLoop(reg, query, feed.remotive[query], 1, acc))
          ELSE RemotiveQueryLoop(reg, net, feed, q + 1, acc)

fetchRemotive(reg, net, feed) ==
  RemotiveQueryLoop(reg, net, feed, 1, [seen |-> {}, jobs |-> <<>>])

\* const maxPages = 10
maxPages == 10

ArbeitnowRequest(page) == "arbeitnow:" \o ToString(page)

ArbeitnowKeeps(job) ==
  LET loc == ToLower(OrEmpty(job.location))
      isLondon == Includes(loc, "london")
      isUK == \/ Includes(loc, "uk") \/ Includes(loc, "united kingdom")
              \/ Includes(loc, "england") \/ Includes(loc, "britain")
  IN isLondon \/ isUK \/ job.remote = TRUE

ArbeitnowPosting(reg, job) ==
  LET isRemote == job.remote = TRUE
  IN enrichJob(reg,
       Posting("arbeitnow-" \o job.slug, job.title, job.company_name,
               IF Truthy(job.location) THEN job.location
               ELSE IF isRemote THEN "Remote" ELSE "Unknown",
               OrEmpty(job.description), job.url, "Arbeitnow", Join(job.tags, ", "),
               IF isRemote THEN 1 ELSE 0, 1, NULL, 0, NULL, 0))

\* the postings of one page, in the order of the page
ArbeitnowPagePostings(reg, data) ==
  LET kept == SelectSeq(data, ArbeitnowKeeps)
  IN [k \in 1..Len(kept) |-> ArbeitnowPosting(reg, kept[k])]

RECURSIVE ArbeitnowPageLoop(_, _, _, _, _)
\* while (page <= maxPages) from page on: a response that is not ok, an
\* empty page and a caught error all break out with the jobs so far
ArbeitnowPageLoop(reg, net, feed, page, jobs) ==
  IF page > maxPages THEN jobs
  ELSE IF net[ArbeitnowRequest(page)] # "ok" THEN jobs
  ELSE IF Len(feed.arbeitnow[page]) = 0 THEN jobs
  ELSE ArbeitnowPageLoop(reg, net, feed, page + 1,
                         jobs \o ArbeitnowPagePostings(reg, feed.arbeitnow[page]))

\* the pages fetchArbeitnow asks for: up to the first that fails or is empty
ArbeitnowPagesAsked(net, feed) ==
  {page \in 1..maxPages :
     \A before \in 1..(page - 1) :
        net[ArbeitnowRequest(before)] = "ok" /\ Len(feed.arbeitnow[before]) > 0}

\* fetchArbeitnow returning nothing once a request of it has failed
fetchArbeitnow_NothingOnFailure(reg, net, feed) ==
  IF \E page \in ArbeitnowPagesAsked(net, feed) : net[ArbeitnowRequest(page)] # "ok"
  THEN <<>>
  ELSE ArbeitnowPageLoop(reg, net, feed, 1, <<>>)

fetchArbeitnow(reg, net, feed) ==
  ArbeitnowPageLoop(reg, net, feed, 1, <<>>)


\* The fetchers below are modelled for feeds that list nothing and for a
\* configuration without API keys: the conversion of their items is not
\* modelled.  fetchJobicy and fetchMuse skip a failed request, and
\* fetchGreenJobsRSS catches the error of its one request; fetchJooble,
\* fetchReed and fetchAdzuna return [] at their first line when the key is
\* not set.
fetchJobicy(reg, net, feed) == <<>>
fetchGreenJobsRSS(reg, net, feed) == <<>>
fetchJooble(reg, net, feed) == <<>>
fetchMuse(reg, net, feed) == <<>>
fetchReed(reg, net, feed) == <<>>
fetchAdzuna(reg, net, feed) == <<>>

\* the names of the sources in the order fetchAllJobs runs them
SOURCES == <<"Jobicy", "Arbeitnow", "GreenJobs", "Jooble", "The Muse", "Remotive", "Reed", "Adzuna">>

\* what a fetcher does on the network and on the clock, in order
RequestEvent(source, request) == [source |-> source, kind |-> "request", request |-> request, ms |-> 0]
SleepEvent(source, ms) == [source |-> source, kind |-> "sleep", request |-> NULL, ms |-> ms]

RECURSIVE RemotiveEventLoop(_, _)
\* the fetch and the sleep of fetchRemotive's loop from search q on:
\* `if (!res.ok) continue` leaves the iteration before `await sleep(31000)`,
\* the catch block does not
RemotiveEventLoop(net, q) ==
  IF q > Len(REMOTIVE_SEARCHES) THEN <<>>
  ELSE LET request == RemotiveRequest(REMOTIVE_SEARCHES[q])
       IN <<RequestEvent("Remotive", request)>>
            \o (IF net[request] = "http_error" THEN <<>> ELSE <<SleepEvent("Remotive", 31000)>>)
            \o RemotiveEventLoop(net, q + 1)

RECURSIVE ArbeitnowEventLoop(_, _, _)
\* the fetch and the sleep of fetchArbeitnow's loop from page on: every
\* break comes before `await sleep(1000)` and ends the requests
ArbeitnowEventLoop(net, feed, page) ==
  IF page > maxPages THEN <<>>
  ELSE LET request == ArbeitnowRequest(page)
       IN <<RequestEvent("Arbeitnow", request)>>
            \o (IF net[request] # "ok" \/ Len(feed.arbeitnow[page]) = 0 THEN <<>>
                ELSE <<SleepEvent("Arbeitnow", 1000)>> \o ArbeitnowEventLoop(net, feed, page + 1))

\* the requests and the pauses of source.fn(), for the two sources whose
\* requests are modelled
SourceEvents(name, net, feed) ==
  CASE name = "Remotive" -> RemotiveEventLoop(net, 1)
    [] name = "Arbeitnow" -> ArbeitnowEventLoop(net, feed, 1)
    [] OTHER -> <<>>

\* source.fn() of the source called name
SourceFn(name, reg, net, feed) ==
  CASE name = "Jobicy" -> fetchJobicy(reg, net, feed)
    [] name = "Arbeitnow" -> fetchArbeitnow(reg, net, feed)
    [] name = "GreenJobs" -> fetchGreenJobsRSS(reg, net, feed)
    [] name = "Jooble" -> fetchJooble(reg, net, feed)
    [] name = "The Muse" -> fetchMuse(reg, net, feed)
    [] name = "Remotive" -> fetchRemotive(reg, net, feed)
    [] name = "Reed" -> fetchReed(reg, net, feed)
    [] name = "Adzuna" -> fetchAdzuna(reg, net, feed)

(***************************************************************************)
(* The world of the model: what the sources list, how requests end, what   *)
(* the sponsor register holds                                              *)
(***************************************************************************)
RemotiveItem(id, title, company_name, location, description, url, category, salary) ==
  [id |-> id, title |-> title, company_name |-> company_name,
   candidate_required_location |-> location, description |-> description,
   url |-> url, category |-> category, salary |-> salary]

ArbeitnowItem(slug, title, company_name, location, remote, description, url, tags) ==
  [slug |-> slug, title |-> title, company_name |-> company_name, location |-> location,
   remote |-> remote, description |-> description, url |-> url, tags |-> tags]

R1 == RemotiveItem("101", "Sustainability Consultant", "Arup", "UK", "<p>TCFD and CSRD reporting</p>",
                   "https://remotive.com/101", "Consulting", "#50,000")
R2 == RemotiveItem("102", "ESG Analyst", "Acme Ltd", NULL, NULL, "https://remotive.com/102", NULL, NULL)
R3 == RemotiveItem("103", "Management Consultant", "Acme Ltd", "Worldwide", "strategy and operations",
                   "https://remotive.com/103", "Consulting", NULL)
R4 == RemotiveItem("104", "Sustainability Lead", "Greenco", "USA Only", "net zero roadmap",
                   "https://remotive.com/104", "Consulting", NULL)
R5 == RemotiveItem("105", "ESG Manager", "Greenco", "EMEA", "esg reporting", "https://remotive.com/105", NULL, NULL)

RemotiveFeed ==
  [query \in {REMOTIVE_SEARCHES[q] : q \in 1..Len(REMOTIVE_SEARCHES)} |->
     CASE query = "sustainability consultant" -> <<R1>>
       [] query = "esg analyst" -> <<R2>>
       [] query = "esg" -> <<R2, R5>>
       [] query = "sustainability" -> <<R1, R4>>
       [] query = "climate" -> <<>>
       [] query = "consulting" -> <<R3, R1>>]

A1 == ArbeitnowItem("climate-risk-analyst-arup", "Climate Risk Analyst", "Arup", "London", FALSE,
                    "climate adaptation", "https://www.arbeitnow.com/jobs/1", <<"consulting", "climate">>)
A2 == ArbeitnowItem("office-manager-acme", "Office Manager", "Acme", "Leeds, UK", FALSE,
                    "", "https://www.arbeitnow.com/jobs/2", <<>>)
A3 == ArbeitnowItem("sustainability-manager-greenco", "Sustainability Manager", "Greenco", NULL, TRUE,
                    "net zero strategy", "https://www.arbeitnow.com/jobs/3", <<>>)
A4 == ArbeitnowItem("esg-analyst-acme", "ESG Analyst", "Acme", "Berlin", FALSE,
                    "esg reporting", "https://www.arbeitnow.com/jobs/4", <<>>)

\* what Arbeitnow lists on its pages; variant says which field the item of
\* page 2 came without, or ("dup") that page 2 lists an item of page 1
\* again, the listing having moved on between the two requests
ArbeitnowFeed(variant) ==
  LET a3 == CASE variant = "nourl" -> [A3 EXCEPT !.url = NULL]
              [] variant = "notitle" -> [A3 EXCEPT !.title = NULL]
              [] variant = "nocompany" -> [A3 EXCEPT !.company_name = NULL]
              [] OTHER -> A3
  IN [page \in 1..maxPages |->
        CASE page = 1 -> <<A1, A2, A4>>
          [] page = 2 -> IF variant = "dup" THEN <<A1, a3>> ELSE <<a3>>
          [] OTHER -> <<>>]

FeedVariants == {"clean", "nourl", "notitle", "nocompany", "dup"}

Feed(variant) == [remotive |-> RemotiveFeed, arbeitnow |-> ArbeitnowFeed(variant)]

\* the requests of the model
Requests ==
  {RemotiveRequest(REMOTIVE_SEARCHES[q]) : q \in 1..Len(REMOTIVE_SEARCHES)}
    \cup {ArbeitnowRequest(page) : page \in 1..maxPages}
    \cup {"greenjobs"}

\* how the requests end: all of them well, or with the named ones failing
Net(failing, outcome) == [r \in Requests |-> IF r \in failing THEN outcome ELSE "ok"]

Nets ==
  {Net({}, "ok")}
    \cup {Net({r}, outcome) : r \in {ArbeitnowRequest(1), ArbeitnowRequest(2), RemotiveRequest("esg"), "greenjobs"},
                              outcome \in {"http_error", "network_error"}}

\* the Home Office register as downloaded, and the empty register
\* loadSponsorRegister leaves when it can neither download nor read a cache
RegisterOk ==
  <<RegisterEntry("Ove Arup & Partners International Limited", "A rating"),
    RegisterEntry("Greenco Energy Group Ltd", "A rating")>>
RegisterEmpty == <<>>

\* the entries of an earlier download, as sponsor_cache.json keeps them
RegisterCached == <<RegisterEntry("Ove Arup & Partners International Limited", "B rating")>>

Registers == {RegisterOk, RegisterEmpty, RegisterCached}

\* sponsor_cache.json: absent, or written less ("fresh") or more ("stale")
\* than CACHE_MAX_AGE_MS ago
NoCache == [kind |-> "none", entries |-> <<>>]
Cache(kind, entries) == [kind |-> kind, entries |-> entries]

\* the sponsor register module before loadSponsorRegister has set sponsorSet:
\* map is sponsorMap, loads counts the assignments to it, downloads the
\* calls of downloadRegister, cache is the file on disk; first remembers
\* how the first load to complete ended ("ok" or "failed")
SponsorUnloaded ==
  [loaded |-> FALSE, map |-> <<>>, loads |-> 0, downloads |-> 0, cache |-> NoCache, first |-> "none"]


(***************************************************************************)
(* State                                                                   *)
(***************************************************************************)
VARIABLES
  jobs,   \* the jobs table: a function from the stored ids to their rows
  call,   \* the last call of the storage API: what was asked, what came back
  hist,   \* per posting id, what has been asked of storage so far (history)
  sc,     \* the scoring engine at work: its input and, once scored, its output
  passes,     \* per trigger, the ingestion pass it started and how far that pass is
  sponsor,    \* the sponsor register module: sponsorSet/sponsorMap, and the loads done
  fetch_log,  \* the rows of the fetch_log table, each tagged with the pass that wrote it
  env         \* the world around the process: feeds, request outcomes, register, AI key

passVars == <<passes, sponsor, fetch_log, env>>

vars == <<jobs, call, hist, sc, passes, sponsor, fetch_log, env>>

NoCall == [op |-> "none", id |-> NULL, status |-> NULL, threw |-> FALSE, error |-> NULL]

NoHist == [phase |-> "none", userStatus |-> NULL, userNotes |-> NULL, userSaved |-> 0,
           lastScore |-> NULLNUM, lastVisa |-> NULL, prevScore |-> NULLNUM]

ScIdle == [phase |-> "idle"]

\* the triggers of an ingestion pass: the startup fetch of app.listen, the
\* daily cron job and POST /api/refresh
Triggers == {"startup", "cron", "manual"}

\* a pass that has not been triggered.  pc is where the pass stands: "idle",
\* "loading" (awaiting ensureLoaded), "fetching" (awaiting source i),
\* "scoring" (awaiting scoreJobs), "digest" (cron awaiting sendDailyDigest),
\* "done"; allJobs, sources and total are the variables of fetchAllJobs,
\* scored and saved the result of scoreJobs and the argument of upsertJobs
\* dl is the call of downloadRegister the pass awaits (0: none), maps
\* collects the contents sponsorMap had when a source of the pass enriched
\* its postings, events lists the requests and the pauses of its sources;
\* k and at are the position inside scoreJobs when its loop is followed
\* step by step: job k, with the request of computeAIScore in flight
\* ("call") or the 500 ms timer pending ("delay"), or "done"
NoPass ==
  [pc |-> "idle", i |-> 0, allJobs |-> <<>>, sources |-> <<>>, scored |-> <<>>,
   gated |-> FALSE, saved |-> <<>>, total |-> 0, outcome |-> "none",
   dl |-> 0, maps |-> {}, events |-> <<>>, k |-> 0, at |-> "none"]

\* no pass anywhere: the state of the storage and scoring specifications
PassesIdle == [t \in Triggers |-> NoPass]
EnvNone ==
  [feed |-> "clean", net |-> <<>>, cache |-> NoCache, downloads |-> <<>>, key |-> NULL, boot |-> "none"]

(***************************************************************************)
(* The postings of the model                                               *)
(***************************************************************************)
\* a consultant post at a register-listed employer, first seen without a salary
PostA1 ==
  Posting("remotive-1", "Sustainability Consultant", "Arup", "London", "<p>TCFD and CSRD reporting</p>",
          "https://remotive.com/1", "Remotive", "Consulting", 1, 1, NULL, 1, "A", 100)
\* the same post fetched again, now with a salary
PostA2 == [PostA1 EXCEPT !.salary = "#50,000"]
\* an analyst post at an employer that is not on the register
PostB ==
  Posting("reed-7", "ESG Analyst", "Acme", "Leeds, UK", "ESG disclosure; visa sponsorship available",
          "https://reed.co.uk/7", "Reed", "", 0, 0, "#38k - #42k", 0, NULL, 95)
\* a post whose source item carried no url
PostNoUrl ==
  Posting("arbeitnow-x", "Climate Risk Analyst", "Acme", "Remote", "climate adaptation",
          NULL, "Arbeitnow", "", 1, 1, NULL, 0, NULL, 68)

\* the ids under which the postings of the model are stored
Ids == {"remotive-1", "reed-7", "arbeitnow-x"}

\* the fixed minimum of the quality gate
MIN_SCORE == 3

\* the gate letting through every posting that scored above zero
QualityGate_AboveZero(scoredJobs) == SelectSeq(scoredJobs, LAMBDA j : j.match_score > 0)

\* no gate: every scored posting goes on to upsertJobs
QualityGate_Off(scoredJobs) == scoredJobs

\* scoredJobs.filter(j => j.match_score >= MIN_SCORE)
QualityGate(scoredJobs) == SelectSeq(scoredJobs, LAMBDA j : j.match_score >= MIN_SCORE)

\* the postings above as the heuristic scorer hands them to the quality gate
StoreRows == {scoreJob(p, NULL, NoReply) : p \in {PostA1, PostA2, PostB, PostNoUrl}}

\* the longest batch handed to upsertJobs in the storage specification
MaxBatch == 2

Batches == UNION {[1..n -> StoreRows] : n \in 0..MaxBatch}

\* what users type
UserStatuses == {"applied", "done"}
UserNotes == {"", "call back"}
\* the ids users act on: a posting of the model and an id that is never stored
UserIds == {"remotive-1", "no-such-id"}

(***************************************************************************)
(* Storage API calls                                                       *)
(***************************************************************************)
\* the last row of a batch that carries id (rows must hold one)
LastRowOf(rows, id) ==
  rows[CHOOSE i \in 1..Len(rows) : rows[i].id = id /\ \A j \in (i + 1)..Len(rows) : rows[j].id # id]

\* history after a committed upsertJobs(rows)
HistAfterUpsert(rows) ==
  [id \in DOMAIN hist |->
     IF \E i \in 1..Len(rows) : rows[i].id = id
     THEN LET r == LastRowOf(rows, id)
              h == hist[id]
          IN [h EXCEPT !.phase = IF h.phase = "none" THEN "inserted"
                                 ELSE IF h.phase = "edited" THEN "reingested" ELSE h.phase,
                       !.userStatus = IF h.phase = "none" THEN "new" ELSE h.userStatus,
                       !.lastScore = r.match_score,
                       !.lastVisa = r.visa_confidence,
                       !.prevScore = IF id \in DOMAIN jobs THEN jobs[id].match_score ELSE NULLNUM]
     ELSE hist[id]]

\* db.upsertJobs(rows), as fetchAllJobs calls it with the gated postings
UpsertJobs(rows) ==
  LET r == upsertJobs(jobs, rows)
  IN /\ jobs' = r.db
     /\ call' = [NoCall EXCEPT !.op = "upsertJobs", !.threw = r.threw, !.error = r.error]
     /\ hist' = IF r.threw THEN hist ELSE HistAfterUpsert(rows)
     /\ UNCHANGED <<sc, passVars>>

\* POST /api/jobs/:id/save
ToggleSave(id) ==
  LET r == toggleSave(jobs, id)
  IN /\ jobs' = r.db
     /\ call' = [NoCall EXCEPT !.op = "toggleSave", !.id = id]
     /\ hist' = IF id \in DOMAIN jobs
                THEN [hist EXCEPT ![id].userSaved = 1 - hist[id].userSaved]
                ELSE hist
     /\ UNCHANGED <<sc, passVars>>

\* db.updateStatus(id, status)
UpdateStatus(id, status) ==
  LET r == updateStatus(jobs, id, status)
  IN /\ jobs' = r.db
     /\ call' = [NoCall EXCEPT !.op = "updateStatus", !.id = id, !.status = status,
                               !.threw = r.threw, !.error = r.error]
     /\ hist' = IF ~r.threw /\ id \in DOMAIN jobs
                THEN [hist EXCEPT ![id].userStatus = status, ![id].phase = "edited"]
                ELSE hist
     /\ UNCHANGED <<sc, passVars>>

\* db.updateNotes(id, notes)
UpdateNotes(id, notes) ==
  LET r == updateNotes(jobs, id, notes)
  IN /\ jobs' = r.db
     /\ call' = [NoCall EXCEPT !.op = "updateNotes", !.id = id]
     /\ hist' = IF id \in DOMAIN jobs
                THEN [hist EXCEPT ![id].userNotes = notes, ![id].phase = "edited"]
                ELSE hist
     /\ UNCHANGED <<sc, passVars>>

EmptyTable == [id \in {} |-> NoHist]

InitStore ==
  /\ jobs = EmptyTable
  /\ call = NoCall
  /\ hist = [id \in Ids |-> NoHist]
  /\ sc = ScIdle
  /\ passes = PassesIdle
  /\ sponsor = SponsorUnloaded
  /\ fetch_log = {}
  /\ env = EnvNone

NextStore ==
  \/ \E rows \in Batches : UpsertJobs(rows)
  \/ \E id \in UserIds : ToggleSave(id)
  \/ \E id \in UserIds, status \in UserStatuses : UpdateStatus(id, status)
  \/ \E id \in UserIds, notes \in UserNotes : UpdateNotes(id, notes)

\* storage under re-ingestion and user edits
SpecStore == InitStore /\ [][NextStore]_vars


(***************************************************************************)
(* The scoring engine on its own (scorer.js)                               *)
(***************************************************************************)
ScoreTitles ==
  {"Sustainability Consultant", "Office Manager", "Sustainability Consulting & Reporting Lead"}

\* no description, and one that names nine of the depth terms
ScoreDescriptions == {"", "<p>tcfd sfdr csrd gri sdg sbti scope 1 scope 2 scope 3</p>"}

ScoreSalaries == {NULL, "#50,000"}

\* titles that hit no tier with points, and a description that names
\* visa signals and no depth term
NoContextTitles == {"Office Manager", "Communications Consultant"}
NoContextDescription == "visa sponsorship; work permit; relocation package; will sponsor"

\* postings as enrichJob hands them to scoreJobs
ScoreJobsIn ==
  {Posting("x-1", title, "Arup", "London", description, "https://example.org/1", "Remotive", "",
           0, verified, salary, verified, IF verified = 1 THEN "A" ELSE NULL, 0) :
     title \in ScoreTitles, description \in ScoreDescriptions,
     salary \in ScoreSalaries, verified \in {0, 1}}
  \cup
  {Posting("x-2", "ESG Analyst", "Acme", location, "visa sponsorship; work permit", "https://example.org/2",
           "Arbeitnow", "", remote, 1, salary, 0, NULL, 0) :
     location \in {"Berlin", "Leeds, UK"}, remote \in {0, 1}, salary \in {"#41,700", "Competitive"}}
  \cup
  {Posting("x-3", title, "Arup", "London", NoContextDescription, "https://example.org/3",
           "Reed", "", 0, verified, salary, verified, IF verified = 1 THEN "A" ELSE NULL, 0) :
     title \in NoContextTitles, salary \in ScoreSalaries, verified \in {0, 1}}

\* what the remote model can be seen to answer
Replies ==
  {Reply(kind, FALSE, NAN, FALSE, "") : kind \in {"network_error", "http_error", "bad_body", "no_json", "malformed"}}
  \cup {Reply("object", TRUE, n, TRUE, "Strong match. Verified sponsor.") : n \in {-5, 0, 1, 73, 100, 150, NAN}}
  \cup {Reply("object", FALSE, NAN, FALSE, ""), Reply("object", TRUE, 73, FALSE, ""),
        Reply("object", FALSE, NAN, TRUE, "Strong match. Verified sponsor.")}

\* the postings scored with a key configured
AIJobsIn ==
  {j \in ScoreJobsIn : /\ j.title \in {"Sustainability Consultant", "Office Manager"}
                      /\ j.description = "" /\ j.salary = NULL /\ j.verified_sponsor = 1}

\* the arguments of computeVisaConfidence: the fields it reads
VisaJobsIn ==
  {[verified_sponsor |-> verified, soc_code |-> soc, salary_num |-> num, salary |-> salary] :
     verified \in {0, 1}, soc \in {NULL, "2431", "2152", "9999"},
     num \in {NULLNUM, 0, 30000, 41699, 41700, 41701, 60000}, salary \in {NULL, "#45k"}}

NoVisa == [confidence |-> NULL, reason |-> NULL, threshold |-> NULLNUM]

ScInputs ==
  {[phase |-> "input", fn |-> "scoreJob", job |-> j, key |-> NULL, reply |-> NoReply,
    out |-> j, visa |-> NoVisa] : j \in ScoreJobsIn}
  \cup {[phase |-> "input", fn |-> "scoreJob", job |-> j, key |-> "sk-ant", reply |-> r,
         out |-> j, visa |-> NoVisa] : j \in AIJobsIn, r \in Replies}
  \cup {[phase |-> "input", fn |-> "computeVisaConfidence", job |-> j, key |-> NULL, reply |-> NoReply,
         out |-> j, visa |-> NoVisa] : j \in VisaJobsIn}

\* every call of the model with what it returns, evaluated ahead of the search
ScoreJobCalls ==
  {[in |-> i, out |-> scoreJob(i.job, i.key, i.reply)] : i \in {x \in ScInputs : x.fn = "scoreJob"}}
VisaConfidenceCalls ==
  {[in |-> i, out |-> computeVisaConfidence(i.job)] : i \in {x \in ScInputs : x.fn = "computeVisaConfidence"}}

\* scoreJob(job, anthropicKey), the remote model answering sc.reply
ScoreJob(c) ==
  /\ sc = c.in
  /\ sc' = [sc EXCEPT !.phase = "scored", !.out = c.out]
  /\ UNCHANGED <<jobs, call, hist, passVars>>

\* computeVisaConfidence(job)
VisaConfidence(c) ==
  /\ sc = c.in
  /\ sc' = [sc EXCEPT !.phase = "scored", !.visa = c.out]
  /\ UNCHANGED <<jobs, call, hist, passVars>>

InitScore ==
  /\ jobs = EmptyTable
  /\ call = NoCall
  /\ hist = [id \in Ids |-> NoHist]
  /\ sc \in ScInputs
  /\ passes = PassesIdle
  /\ sponsor = SponsorUnloaded
  /\ fetch_log = {}
  /\ env = EnvNone

NextScore ==
  \/ \E c \in ScoreJobCalls : ScoreJob(c)
  \/ \E c \in VisaConfidenceCalls : VisaConfidence(c)

\* the scoring engine on every input of the model
SpecScore == InitScore /\ [][NextScore]_vars


(***************************************************************************)
(* The pure functions called on their own: sc holds the function, its      *)
(* arguments and, once it has returned, its result                         *)
(***************************************************************************)
Call(fn, args) == [phase |-> "called", fn |-> fn, args |-> args, out |-> NULL]

\* the scores and confidences computeSuccessProbability is called with:
\* every score of the scale, the four confidences, and values that are none
ProbabilityConfidences == {"green", "yellow", "red", "unknown", NULL, "purple"}
ProbabilityInputs ==
  {Call("computeSuccessProbability", [matchScore |-> m, visaConfidence |-> v])
     : m \in 0..100, v \in ProbabilityConfidences}

SuccessProbabilityCalls ==
  {[in |-> i, out |-> computeSuccessProbability(i.args.matchScore, i.args.visaConfidence)]
     : i \in ProbabilityInputs}

\* computeSuccessProbability(matchScore, visaConfidence)
SuccessProbability(c) ==
  /\ sc.phase = "called" /\ sc.fn = c.in.fn /\ sc.args = c.in.args
  /\ sc' = [sc EXCEPT !.phase = "returned", !.out = c.out]
  /\ UNCHANGED <<jobs, call, hist, passVars>>

\* the names normalise is called with: none, blanks, punctuation only,
\* plain names, names with legal suffixes, quotes, dots and brackets
NormaliseNames ==
  {"", "   ", "...", "-", "Arup", "PwC", "Ove Arup & Partners International Limited",
   "  The 'Acme' Corp., (UK) Ltd. ", "Acme (U.K.) Limited", "L.T.D", "Group", "A&B  Holdings",
   "UK2 plc", "Marks \"n\" Spencer P.L.C.", "acme", "Limited Ltd"}
NormaliseInputs == {Call("normalise", [name |-> n]) : n \in NormaliseNames}

NormaliseCalls == {[in |-> i, out |-> normalise(i.args.name)] : i \in NormaliseInputs}

\* normalise(name)
Normalise(c) ==
  /\ sc.phase = "called" /\ sc.fn = c.in.fn /\ sc.args = c.in.args
  /\ sc' = [sc EXCEPT !.phase = "returned", !.out = c.out]
  /\ UNCHANGED <<jobs, call, hist, passVars>>

\* registers for the lookups: a longer key that contains a shorter one
\* listed after it, keys of five letters and more, and keys around the
\* length ratio of one half
MatchRegister ==
  <<RegisterEntry("Santharupan Ltd", "B rating"),
    RegisterEntry("Acme Consulting Services", "A rating"),
    RegisterEntry("Acme Consulting Limited", "B rating"),
    RegisterEntry("Ove Arup & Partners International Limited", "A rating"),
    RegisterEntry("Greenco Energy Group", "A rating"),
    RegisterEntry("Energy Solutions UK Ltd", "B rating"),
    RegisterEntry("Unknown Ltd", "A rating"),
    RegisterEntry("Confidential Recruitment", "A rating"),
    RegisterEntry("TBC Bank Group PLC", "A rating"),
    RegisterEntry("Wren", "A rating")>>

\* a register with the official name of an alias of two letters and with a
\* name whose key has two letters
ShortRegister ==
  <<RegisterEntry("Ernst & Young LLP", "A rating"),
    RegisterEntry("BP PLC", "A rating")>>

CallRegisters == {MatchRegister, RegisterOk, RegisterEmpty, ShortRegister}

\* the company names the lookups are called with
MatchNames ==
  {"Arup", "ARUP Ltd.", "Acme Consulting", "Acme", "Acme Consulting Services International Holdings",
   "Greenco", "Greenc", "Energy", "Greenco Energy Solutions", "Tharupan", "Wren", "Wrens",
   "Unknown", "See listing", "Confidential", "confidential.", "TBC", "Company Ltd", "Not Specified",
   "", "Ltd", "Constructor", "EY", "BP", NULL}

CheckSponsorInputs ==
  {Call("checkSponsor", [reg |-> [loaded |-> TRUE, map |-> map], name |-> n])
     : map \in CallRegisters, n \in MatchNames}
    \cup {Call("checkSponsor", [reg |-> [loaded |-> FALSE, map |-> <<>>], name |-> "Arup"])}

CheckSponsorCalls ==
  {[in |-> i, out |-> checkSponsor(i.args.reg, i.args.name)] : i \in CheckSponsorInputs}

\* checkSponsor(companyName)
CheckSponsor(c) ==
  /\ sc.phase = "called" /\ sc.fn = c.in.fn /\ sc.args = c.in.args
  /\ sc' = [sc EXCEPT !.phase = "returned", !.out = c.out]
  /\ UNCHANGED <<jobs, call, hist, passVars>>

\* B-Corp directories for the lookup: keys around the length ratio of 0.6
CallDirectories ==
  {[loaded |-> TRUE, set |-> {"greenco energy", "acme consulting", "wren", "ab"}],
   [loaded |-> TRUE, set |-> {}],
   [loaded |-> FALSE, set |-> {}]}

CheckBCorpInputs ==
  {Call("checkBCorp", [dir |-> d, name |-> n])
     : d \in CallDirectories,
       n \in {"Greenco Energy Ltd", "Greenco", "Greenco E", "Greenco En", "Acme Consulting Services",
               "Acme Consulting Services Intl", "Wren", "Wrens", "AB", "Acme", "", NULL}}

CheckBCorpCalls ==
  {[in |-> i, out |-> checkBCorp(i.args.dir, i.args.name)] : i \in CheckBCorpInputs}

\* checkBCorp(companyName)
CheckBCorp(c) ==
  /\ sc.phase = "called" /\ sc.fn = c.in.fn /\ sc.args = c.in.args
  /\ sc' = [sc EXCEPT !.phase = "returned", !.out = c.out]
  /\ UNCHANGED <<jobs, call, hist, passVars>>

\* titles, descriptions and tags with no keyword, with keywords of either
\* tier, with one, two, three and four weak keywords, and absent
RelevanceTitles ==
  {NULL, "", "Office Manager", "Impact Lead", "Sustainability Consultant", "ESG Analyst",
   "Business Analyst", "Head of Net"}
RelevanceDescriptions ==
  {NULL, "", "zero waste office", "Responsible for stakeholder engagement and governance",
   "an ethical charity", "Corporate Governance", "responsible business and corporate governance",
   "Carbon accounting", "renewable energy"}
RelevanceTags == {NULL, "", "ngo", "CSR", "stewardship"}

ESGRelatedInputs ==
  {Call("isESGRelated", [title |-> t, description |-> d, tags |-> g])
     : t \in RelevanceTitles, d \in RelevanceDescriptions, g \in RelevanceTags}

ESGRelatedCalls ==
  {[in |-> i, out |-> Relevant(isESGRelated(i.args.title, i.args.description, i.args.tags))]
     : i \in ESGRelatedInputs}

\* isESGRelated(title, description, tags)
ESGRelated(c) ==
  /\ sc.phase = "called" /\ sc.fn = c.in.fn /\ sc.args = c.in.args
  /\ sc' = [sc EXCEPT !.phase = "returned", !.out = c.out]
  /\ UNCHANGED <<jobs, call, hist, passVars>>

\* search queries of the sources, a query with no keyword, and no query
SearchQueries ==
  {"ESG consultant", "sustainability", "Net Zero jobs", "graduate jobs london", "impact", "", NULL}

SearchESGRelevantInputs ==
  {Call("isSearchESGRelevant", [title |-> t, snippet |-> d, searchKeywords |-> q])
     : t \in RelevanceTitles \cup {"Strategy Lead", "Town Planner"},
       d \in {NULL, "", "Carbon accounting", "Responsible for stakeholder engagement and governance",
              "an ethical charity"},
       q \in SearchQueries}

SearchESGRelevantCalls ==
  {[in |-> i, out |-> isSearchESGRelevant(i.args.title, i.args.snippet, i.args.searchKeywords)]
     : i \in SearchESGRelevantInputs}

\* isSearchESGRelevant(title, snippet, searchKeywords)
SearchESGRelevant(c) ==
  /\ sc.phase = "called" /\ sc.fn = c.in.fn /\ sc.args = c.in.args
  /\ sc' = [sc EXCEPT !.phase = "returned", !.out = c.out]
  /\ UNCHANGED <<jobs, call, hist, passVars>>

\* postings as a fetcher builds them before enrichJob: two titles, employers
\* on the register under their own name, under a longer name and not at
\* all, salaries above and below the threshold, and every kind of
\* location, description and remote flag
RawPosting(title, company, location, description, remote, salary) ==
  Posting("reed-18", title, company, location, description, "https://reed.co.uk/18", "Reed", "",
          remote, 0, salary, NULLNUM, NULL, NULLNUM)

RawCompanies == {"Arup", "Greenco", "Initech"}

RawPostings ==
  {RawPosting("Sustainability Consultant", company, location, description, remote, POUND \o "50,000")
     : company \in RawCompanies,
       location \in {NULL, "London", "Leeds, UK", "Berlin"},
       description \in {NULL, "General duties", "<p>Net zero strategy; visa sponsorship available</p>"},
       remote \in {0, 1, NULLNUM}}
    \cup {RawPosting(title, company, NULL, NULL, 0, salary)
             : title \in {"Sustainability Consultant", "Office Manager"},
               company \in RawCompanies,
               salary \in {POUND \o "50,000", POUND \o "30,000", NULL}}

EnrichAndScoreInputs ==
  {Call("enrichJob, scoreJob", [reg |-> [loaded |-> TRUE, map |-> RegisterOk], rawJob |-> j])
     : j \in RawPostings}

EnrichAndScoreCalls ==
  {[in |-> i, out |-> scoreJob(enrichJob(i.args.reg, i.args.rawJob), NULL, NoReply)]
     : i \in EnrichAndScoreInputs}

\* a posting on its way through a pass: enrichJob(rawJob) in the fetcher,
\* then scoreJob(job, undefined) in scoreJobs
EnrichAndScore(c) ==
  /\ sc.phase = "called" /\ sc.fn = c.in.fn /\ sc.args = c.in.args
  /\ sc' = [sc EXCEPT !.phase = "returned", !.out = c.out]
  /\ UNCHANGED <<jobs, call, hist, passVars>>

CallInputs ==
  ProbabilityInputs \cup NormaliseInputs \cup CheckSponsorInputs \cup CheckBCorpInputs
    \cup ESGRelatedInputs \cup SearchESGRelevantInputs \cup EnrichAndScoreInputs

InitCalls ==
  /\ jobs = EmptyTable
  /\ call = NoCall
  /\ hist = [id \in Ids |-> NoHist]
  /\ sc \in CallInputs
  /\ passes = PassesIdle
  /\ sponsor = SponsorUnloaded
  /\ fetch_log = {}
  /\ env = EnvNone

NextCalls ==
  \/ \E c \in SuccessProbabilityCalls : SuccessProbability(c)
  \/ \E c \in NormaliseCalls : Normalise(c)
  \/ \E c \in CheckSponsorCalls : CheckSponsor(c)
  \/ \E c \in CheckBCorpCalls : CheckBCorp(c)
  \/ \E c \in ESGRelatedCalls : ESGRelated(c)
  \/ \E c \in SearchESGRelevantCalls : SearchESGRelevant(c)
  \/ \E c \in EnrichAndScoreCalls : EnrichAndScore(c)

\* the pure functions of the ranker, the register lookup and the relevance
\* filters on every input of the model
SpecCalls == InitCalls /\ [][NextCalls]_vars


(***************************************************************************)
(* Ingestion passes (fetchAllJobs) and their triggers                      *)
(***************************************************************************)
\* the register as the process finds it: the cache file at boot, and what
\* the first, second and third call of downloadRegister come back with
\* ("ok": the CSV; "failed": null, the page or the file could not be fetched)
Registry(cache, downloads) == [cache |-> cache, downloads |-> downloads]
DownloadOk == Registry(NoCache, <<"ok", "ok", "ok">>)
DownloadFails == Registry(NoCache, <<"failed", "failed", "failed">>)
StaleDownloadFails == Registry(Cache("stale", RegisterCached), <<"failed", "failed", "failed">>)
StaleDownloadOk == Registry(Cache("stale", RegisterCached), <<"ok", "ok", "ok">>)
FreshCache == Registry(Cache("fresh", RegisterCached), <<"ok", "ok", "ok">>)
DownloadFailsOnce == Registry(NoCache, <<"failed", "ok", "ok">>)

Env(feed, net, registry, key, boot) ==
  [feed |-> feed, net |-> net, cache |-> registry.cache, downloads |-> registry.downloads,
   key |-> key, boot |-> boot]

AllOk == Net({}, "ok")

\* the worlds of the model: every request outcome with clean feeds, every
\* feed variant with requests that succeed, a register that cannot be
\* downloaded (with and without a cache file, every time or the first time
\* only), a cache file in date and out of date, the AI scorer switched on,
\* and a boot with a table that has rows
Envs ==
  {Env("clean", net, DownloadOk, NULL, "empty") : net \in Nets}
    \cup {Env(variant, AllOk, DownloadOk, NULL, "empty") : variant \in FeedVariants}
    \cup {Env("nourl", Net({ArbeitnowRequest(2)}, "http_error"), DownloadOk, NULL, "empty")}
    \cup {Env("clean", AllOk, registry, NULL, "empty")
             : registry \in {DownloadFails, StaleDownloadFails, StaleDownloadOk,
                             FreshCache, DownloadFailsOnce}}
    \cup {Env(variant, AllOk, DownloadOk, "sk-ant-key", "empty") : variant \in {"clean", "nourl"}}
    \cup {Env("clean", AllOk, DownloadOk, NULL, "seeded")}

\* the contents sponsorMap can have in the world e once it is loaded
MapsOf(e) ==
  {RegisterOk : k \in {k \in 1..Len(e.downloads) : e.downloads[k] = "ok"}}
    \cup {RegisterEmpty : k \in {k \in 1..Len(e.downloads) : e.downloads[k] = "failed"}}
    \cup {e.cache.entries : k \in {k \in {1} : e.cache.kind = "fresh"}}

\* what source.fn() resolves to in each world, the register being loaded
FetchResults ==
  UNION {{[source |-> SOURCES[i], feed |-> e.feed, net |-> e.net, map |-> map, threw |-> FALSE,
           error |-> NULL,
           events |-> SourceEvents(SOURCES[i], e.net, Feed(e.feed)),
           jobs |-> SourceFn(SOURCES[i], [loaded |-> TRUE, map |-> map], e.net, Feed(e.feed))]
            : i \in 1..Len(SOURCES), map \in MapsOf(e)} : e \in Envs}

\* the postings the fetchers hand to scoring
FetchedPostings == UNION {{r.jobs[k] : k \in 1..Len(r.jobs)} : r \in FetchResults}

\* what the remote model answers for a posting, when it is asked
AIReplyFor(job) ==
  CASE job.title = "Sustainability Consultant" -> Reply("object", TRUE, 88, TRUE, "Strong match. Verified sponsor.")
    [] job.title = "Climate Risk Analyst" -> Reply("object", TRUE, 2, TRUE, "Weak match.")
    [] OTHER -> Reply("http_error", FALSE, NAN, FALSE, "")

\* scoreJob on every posting a pass can hand to it, without and with the key
ScoreTable ==
  {[job |-> j, key |-> key, out |-> scoreJob(j, key, AIReplyFor(j))]
     : j \in FetchedPostings, key \in {NULL, "sk-ant-key"}}

\* scoreJobs(jobs, anthropicKey), scoreJob read from the table tab
scoreJobs(tab, allJobs, anthropicKey) ==
  [k \in 1..Len(allJobs) |-> (CHOOSE c \in tab : c.job = allJobs[k] /\ c.key = anthropicKey).out]

\* the pass going on to its sources without waiting for ensureLoaded
BeginPass_NoAwait(p) == [p EXCEPT !.pc = "fetching", !.i = 1]

\* the first lines of fetchAllJobs, await sponsor.ensureLoaded(): nothing to
\* do when sponsorSet is set, the cache file read at once when it is in date,
\* and otherwise a download to wait for
BeginPass(p) ==
  IF sponsor.loaded \/ sponsor.cache.kind = "fresh" THEN [p EXCEPT !.pc = "fetching", !.i = 1]
  ELSE [p EXCEPT !.pc = "loading", !.dl = sponsor.downloads + 1]

\* loadSponsorRegister up to its first await, in the pass a trigger starts
BeginLoad ==
  IF sponsor.loaded THEN sponsor
  ELSE IF sponsor.cache.kind = "fresh"
       THEN [sponsor EXCEPT !.loaded = TRUE, !.map = sponsor.cache.entries, !.loads = @ + 1,
                            !.first = IF @ = "none" THEN "ok" ELSE @]
       ELSE [sponsor EXCEPT !.downloads = @ + 1]

\* what the caller of fetchAllJobs does when the pass p of trigger t has
\* returned or thrown: POST /api/refresh answers 200 or 500, the cron job
\* goes on to the digest or logs the error, app.listen has no catch
AfterPass(t, p, threw) ==
  CASE t = "manual" ->
         [p EXCEPT !.pc = "done", !.outcome = IF threw THEN "500 Refresh failed" ELSE "200 Refresh complete"]
    [] t = "cron" ->
         IF threw THEN [p EXCEPT !.pc = "done", !.outcome = "error logged"]
         ELSE [p EXCEPT !.pc = "digest", !.outcome = "returned"]
    [] t = "startup" ->
         [p EXCEPT !.pc = "done", !.outcome = IF threw THEN "unhandled rejection" ELSE "returned"]

\* app.listen's callback at boot, the cron job firing, POST /api/refresh
\* arriving: each starts a pass, the startup one only on an empty table
Trigger(t) ==
  /\ passes[t].pc = "idle"
  /\ t # "startup" => passes["startup"].pc # "idle"
  /\ passes' = [passes EXCEPT ![t] =
                  IF t = "startup" /\ DOMAIN jobs # {}
                  THEN [@ EXCEPT !.pc = "done", !.outcome = "skipped"]
                  ELSE BeginPass(@)]
  /\ sponsor' = IF t = "startup" /\ DOMAIN jobs # {} THEN sponsor ELSE BeginLoad
  /\ UNCHANGED <<jobs, call, hist, sc, fetch_log, env>>

\* downloadRegister of the pass of t resolves and loadSponsorRegister runs to
\* its end: with the CSV (parsed to reg) sponsorMap is set and written to the
\* cache file, without it sponsorMap is set to an empty Map
RegisterLoaded(t, reg) ==
  /\ passes[t].pc = "loading"
  /\ sponsor' = IF env.downloads[passes[t].dl] = "ok"
                THEN [sponsor EXCEPT !.loaded = TRUE, !.map = reg, !.loads = @ + 1,
                                     !.first = IF @ = "none" THEN "ok" ELSE @,
                                     !.cache = Cache("fresh", reg)]
                ELSE [sponsor EXCEPT !.loaded = TRUE, !.map = RegisterEmpty, !.loads = @ + 1,
                                     !.first = IF @ = "none" THEN "failed" ELSE @]
  /\ passes' = [passes EXCEPT ![t] = [@ EXCEPT !.pc = "fetching", !.i = 1]]
  /\ UNCHANGED <<jobs, call, hist, sc, fetch_log, env>>

\* one turn of the loop over the sources: source.fn() settles as r says
FetchSource(t, r) ==
  LET p == [passes[t] EXCEPT !.events = @ \o r.events]
      p1 == IF r.threw THEN p
            ELSE [p EXCEPT !.allJobs = @ \o r.jobs,
                           !.maps = IF Len(r.jobs) > 0 THEN @ \cup {sponsor.map} ELSE @,
                           !.sources = [n \in (DOMAIN @) \cup {r.source} |->
                                          IF n = r.source THEN Len(r.jobs) ELSE @[n]]]
      p2 == IF p.i < Len(SOURCES) THEN [p1 EXCEPT !.i = @ + 1]
            ELSE IF Len(p1.allJobs) > 0 THEN [p1 EXCEPT !.pc = "scoring"]
            ELSE AfterPass(t, p1, FALSE)
  IN /\ p.pc = "fetching"
     /\ r.source = SOURCES[p.i]
     /\ r.feed = env.feed /\ r.net = env.net /\ r.map = sponsor.map
     /\ fetch_log' = fetch_log \cup
          {[pass |-> t, source |-> r.source,
            job_count |-> IF r.threw THEN 0 ELSE Len(r.jobs),
            status |-> IF r.threw THEN "error: " \o r.error ELSE "success"]}
     /\ passes' = [passes EXCEPT ![t] = p2]
     /\ UNCHANGED <<jobs, call, hist, sc, sponsor, env>>

\* scoreJobs resolves; the quality gate, upsertJobs and the return (or the
\* throw) of fetchAllJobs follow without a pause
ScoreAndSave(t, tab) ==
  LET p == passes[t]
      scoredJobs == scoreJobs(tab, p.allJobs, env.key)
      qualityJobs == QualityGate(scoredJobs)
      r == upsertJobs(jobs, qualityJobs)
      p1 == [p EXCEPT !.scored = scoredJobs, !.gated = TRUE, !.saved = qualityJobs,
                      !.total = IF r.threw THEN 0 ELSE r.ret]
  IN /\ p.pc = "scoring"
     /\ jobs' = r.db
     /\ call' = [NoCall EXCEPT !.op = "upsertJobs", !.threw = r.threw, !.error = r.error]
     /\ passes' = [passes EXCEPT ![t] = AfterPass(t, p1, r.threw)]
     /\ UNCHANGED <<hist, sc, sponsor, fetch_log, env>>

\* sendDailyDigest of the cron job returns (no DIGEST_EMAIL is configured)
Digest ==
  /\ passes["cron"].pc = "digest"
  /\ passes' = [passes EXCEPT !["cron"].pc = "done"]
  /\ UNCHANGED <<jobs, call, hist, sc, sponsor, fetch_log, env>>

\* the posting of the Arbeitnow feed "Office Manager" as an earlier run of the
\* process stored it, the remote model having scored it 40
SeededOfficeManager ==
  [PostB EXCEPT !.id = "arbeitnow-office-manager-acme", !.title = "Office Manager",
                !.location = "Leeds, UK", !.description = "", !.salary = NULL,
                !.url = "https://www.arbeitnow.com/jobs/2", !.source = "Arbeitnow",
                !.match_score = 40, !.visa_confidence = "yellow", !.success_probability = 44]

\* the rows left in the table by an earlier run of the process
SeededTable ==
  UpsertRow(UpsertRow(EmptyTable, [PostB EXCEPT !.match_score = 57, !.visa_confidence = "amber"]),
            SeededOfficeManager)

InitPass ==
  /\ env \in Envs
  /\ jobs = IF env.boot = "seeded" THEN SeededTable ELSE EmptyTable
  /\ call = NoCall
  /\ hist = [id \in Ids |-> NoHist]
  /\ sc = ScIdle
  /\ passes = PassesIdle
  /\ sponsor = [SponsorUnloaded EXCEPT !.cache = env.cache]
  /\ fetch_log = {}

NextPass ==
  \/ \E t \in Triggers : Trigger(t)
  \/ \E t \in Triggers, reg \in {RegisterOk} : RegisterLoaded(t, reg)
  \/ \E t \in Triggers, r \in FetchResults : FetchSource(t, r)
  \/ \E t \in Triggers, tab \in {ScoreTable} : ScoreAndSave(t, tab)
  \/ Digest

\* ingestion passes as their triggers start them and the event loop
\* interleaves them
SpecPass == InitPass /\ [][NextPass]_vars


(***************************************************************************)
(* The loop of scoreJobs, await by await, in passes that have reached      *)
(* scoring (one after another or, as nothing serializes passes, together)  *)
(***************************************************************************)
\* what the sources handed to the pass: the Arbeitnow postings
ScoringBatch == fetchArbeitnow([loaded |-> TRUE, map |-> RegisterOk], AllOk, Feed("clean"))

AnthropicKeys == {NULL, "sk-ant-key"}

\* a trigger starts a pass and the pass goes through its sources, which
\* hand it batch: fetchAllJobs up to the call of scoreJobs
FetchAll(t, batch) ==
  /\ passes[t].pc = "idle"
  /\ t # "startup" => passes["startup"].pc # "idle"
  /\ passes' = [passes EXCEPT ![t] =
                  [NoPass EXCEPT !.pc = "scoring", !.i = Len(SOURCES), !.allJobs = batch]]
  /\ UNCHANGED <<jobs, call, hist, sc, sponsor, fetch_log, env>>

\* scoreJobs(allJobs, config.anthropicKey) is called; the first call of the
\* process is where the model learns whether ANTHROPIC_API_KEY is set, and
\* every later call reads the same key.  Without a key every await of the
\* loop is on a promise that is already settled and the loop runs to its
\* end with no request and no timer; with a key the request for the first
\* job leaves.  Only the position in the loop is followed here: the values
\* pushed to results are those of scoreJobs in ScoreAndSave
BeginScoring(t, key) ==
  LET p == passes[t]
  IN /\ p.pc = "scoring" /\ p.at = "none"
     /\ env.boot = "none" \/ env.key = key
     /\ env' = [env EXCEPT !.key = key, !.boot = "empty"]
     /\ passes' = [passes EXCEPT ![t] =
                     IF Truthy(key)
                     THEN [p EXCEPT !.k = 1, !.at = "call"]
                     ELSE [p EXCEPT !.k = Len(p.allJobs), !.at = "done"]]
     /\ UNCHANGED <<jobs, call, hist, sc, sponsor, fetch_log>>

\* the request of computeAIScore for job k settles, scoreJob returns, the
\* result is pushed and the timer of 500 ms is set
AIReturns(t) ==
  LET p == passes[t]
  IN /\ p.at = "call"
     /\ passes' = [passes EXCEPT ![t] = [p EXCEPT !.at = "delay"]]
     /\ UNCHANGED <<jobs, call, hist, sc, sponsor, fetch_log, env>>

\* the timer fires: the request for the next job leaves, or the loop ends
DelayElapsed(t) ==
  LET p == passes[t]
  IN /\ p.at = "delay"
     /\ passes' = [passes EXCEPT ![t] =
                     IF p.k < Len(p.allJobs) THEN [p EXCEPT !.k = @ + 1, !.at = "call"]
                     ELSE [p EXCEPT !.at = "done"]]
     /\ UNCHANGED <<jobs, call, hist, sc, sponsor, fetch_log, env>>

InitScoreJobs ==
  /\ jobs = EmptyTable
  /\ call = NoCall
  /\ hist = [id \in Ids |-> NoHist]
  /\ sc = ScIdle
  /\ passes = PassesIdle
  /\ sponsor = SponsorUnloaded
  /\ fetch_log = {}
  /\ env = EnvNone

NextScoreJobs ==
  \/ \E t \in Triggers, batch \in {ScoringBatch} : FetchAll(t, batch)
  \/ \E t \in Triggers, key \in AnthropicKeys : BeginScoring(t, key)
  \/ \E t \in Triggers : AIReturns(t)
  \/ \E t \in Triggers : DelayElapsed(t)

SpecScoreJobs == InitScoreJobs /\ [][NextScoreJobs]_vars


(***************************************************************************)
(* Properties of storage (SpecStore)                                       *)
(***************************************************************************)
\* C1: a posting upserted, edited by the user (status, notes) and upserted
\* again keeps the status and the notes the user set, and carries the
\* match_score and the visa_confidence of the last posting upserted.
C1_ReingestKeepsUserEdits ==
  \A id \in DOMAIN jobs :
    hist[id].phase = "reingested" =>
      /\ jobs[id].status = hist[id].userStatus
      /\ jobs[id].notes = hist[id].userNotes
      /\ jobs[id].match_score = hist[id].lastScore
      /\ jobs[id].visa_confidence = hist[id].lastVisa

\* C1 witness: a posting re-ingested after the user set its status and its
\* notes, the second ingestion bringing another score
C1_Witness ==
  \E id \in DOMAIN jobs :
    /\ hist[id].phase = "reingested"
    /\ jobs[id].status = "applied"
    /\ jobs[id].notes = "call back"
    /\ hist[id].prevScore # NULLNUM
    /\ hist[id].prevScore # jobs[id].match_score

\* C2: the saved flag of a stored posting is what the user toggled it to,
\* 0 on first insert, whatever was upserted since.
C2_SavedSurvivesReingest ==
  \A id \in DOMAIN jobs : jobs[id].saved = hist[id].userSaved

\* C7: updateStatus with a status outside VALID_STATUSES throws an error that
\* names every allowed value and leaves the table as it was.
C7_InvalidStatusRejected ==
  [][\A id \in UserIds, status \in UserStatuses :
       (status \notin ValidStatusSet /\ UpdateStatus(id, status)) =>
         /\ jobs' = jobs
         /\ call'.threw
         /\ \A v \in ValidStatusSet : Includes(call'.error, v)]_vars

\* C7 witness: an invalid status was just rejected for a stored posting whose
\* status the user had set before
C7_Witness ==
  /\ call.op = "updateStatus"
  /\ call.threw
  /\ call.status \notin ValidStatusSet
  /\ call.id \in DOMAIN jobs
  /\ jobs[call.id].status = "applied"


\* C28: whatever passes store and users do, the status of every stored
\* posting is one of new, to_apply, applied, interviewing, offer, rejected,
\* archived, and a posting that was stored once and not edited since has
\* status new.
C28_StatusAlwaysValid ==
  \A id \in DOMAIN jobs :
    /\ jobs[id].status \in {"new", "to_apply", "applied", "interviewing", "offer", "rejected", "archived"}
    /\ hist[id].phase = "inserted" => jobs[id].status = "new"

\* C28 witness: of two stored postings one has the status the user gave it
\* and the other, never edited, has status new, and a status that is not
\* allowed has just been refused
C28_Witness ==
  /\ {"remotive-1", "reed-7"} \subseteq DOMAIN jobs
  /\ jobs["remotive-1"].status = "applied"
  /\ hist["reed-7"].phase = "inserted" /\ jobs["reed-7"].status = "new"
  /\ call.op = "updateStatus" /\ call.status = "done" /\ call.threw


(***************************************************************************)
(* Properties of the scoring engine (SpecScore)                            *)
(***************************************************************************)
\* C5: when the remote call fails - a network error, a non-success status, a
\* body that is no JSON, or a JSON object without its score or its summary -
\* scoreJob gives the posting the heuristic score and the heuristic summary.
C5_AIFailsSoft ==
  (sc.phase = "scored" /\ sc.fn = "scoreJob" /\ Truthy(sc.key)) =>
    LET failed == sc.reply.kind # "object" \/ ~sc.reply.hasScore \/ ~sc.reply.hasSummary
        heur == computeHeuristicScore(sc.out)
    IN failed =>
         /\ sc.out.match_score = heur.score
         /\ sc.out.ai_summary = generateHeuristicSummary(sc.out, heur.score, heur.reasons)

\* C9: computeVisaConfidence is red without a verified sponsor, yellow for a
\* verified sponsor with no salary figure or one below the threshold, green
\* for a verified sponsor with a salary at or above the threshold; the
\* threshold is the larger of the new-entrant rate of the occupation code and
\* 41700 when the code is in the table, and 41700 otherwise.
C9_VisaConfidenceTable ==
  (sc.phase = "scored" /\ sc.fn = "computeVisaConfidence") =>
    LET j == sc.job
        salary == IF j.salary_num > 0 THEN j.salary_num
                  ELSE IF j.salary = "#45k" THEN 45000 ELSE 0
        threshold == IF j.soc_code \in DOMAIN SOC_GOING_RATES
                     THEN Max(SOC_GOING_RATES[j.soc_code].newEntrant, 41700)
                     ELSE 41700
    IN sc.visa.confidence =
         IF j.verified_sponsor # 1 THEN "red"
         ELSE IF salary = 0 THEN "yellow"
         ELSE IF salary >= threshold THEN "green"
         ELSE "yellow"

\* C9 witness: a verified sponsor, no occupation code, a salary of exactly
\* 41700: green
C9_Witness ==
  /\ sc.phase = "scored"
  /\ sc.fn = "computeVisaConfidence"
  /\ sc.job.verified_sponsor = 1
  /\ sc.job.soc_code = NULL
  /\ sc.job.salary_num = 41700
  /\ sc.job.salary = NULL
  /\ sc.visa.confidence = "green"

\* C10: whichever scorer produced it, the match_score of a scored posting is
\* an integer from 0 to 100.
C10_MatchScoreInRange ==
  (sc.phase = "scored" /\ sc.fn = "scoreJob") => sc.out.match_score \in 0..100

\* C10 witness: the heuristic scorer on a posting whose points add up to more
\* than 100
C10_Witness ==
  /\ sc.phase = "scored"
  /\ sc.fn = "scoreJob"
  /\ sc.out.path = "heuristic"
  /\ sc.out.title = "Sustainability Consulting & Reporting Lead"
  /\ sc.out.verified_sponsor = 1
  /\ sc.out.salary = "#50,000"
  /\ sc.out.description # ""
  /\ sc.out.match_score = 100


\* the posting has no domain context: its title hits no tier with points
\* and its text names no depth term
NoDomainContext(job) ==
  /\ RoleMatch(job.title).rolePts = 0
  /\ TermHits(ESG_DEEP_TERMS,
              ToLower(OrEmpty(job.title)) \o " " \o ToLower(stripHtml(OrEmpty(job.description)))) = <<>>

\* the points left to a posting without context: 5 for a verified sponsor (3
\* for a listed one), the visa signals up to 10, the location and the salary,
\* and no consulting or communications bonus
NoContextPoints(job) ==
  LET text == ToLower(OrEmpty(job.title)) \o " " \o ToLower(stripHtml(OrEmpty(job.description)))
      loc == ToLower(OrEmpty(job.location))
  IN (IF job.verified_sponsor = 1 THEN 5 ELSE IF job.visa_sponsorship = 1 THEN 3 ELSE 0)
     + Min(3 * Len(TermHits(VISA_SIGNAL_TERMS, text)), 10)
     + (IF Includes(loc, "london") THEN 10
        ELSE IF Includes(loc, "uk") \/ Includes(loc, "united kingdom") THEN 7
        ELSE IF job.remote = 1 THEN 5 ELSE 0)
     + (IF Truthy(job.salary) THEN 5 ELSE 0)

\* C26: the heuristic score of a posting with no domain context counts 5 for
\* a verified sponsor instead of 20 and no consulting or communications
\* bonus, loses 15 with a floor of 0, and so never exceeds 15.
C26_NoiseRejection ==
  (sc.phase = "scored" /\ sc.fn = "scoreJob" /\ sc.out.path = "heuristic" /\ NoDomainContext(sc.job)) =>
     /\ sc.out.match_score = Max(NoContextPoints(sc.job) - 15, 0)
     /\ sc.out.match_score <= 15

\* C26 witness: "Communications Consultant" at a verified sponsor in London,
\* with a salary and visa signals and no depth term, has scored 15
C26_Witness ==
  /\ sc.phase = "scored" /\ sc.fn = "scoreJob" /\ sc.out.path = "heuristic"
  /\ sc.job.title = "Communications Consultant" /\ sc.job.verified_sponsor = 1
  /\ sc.job.salary = "#50,000" /\ NoDomainContext(sc.job)
  /\ sc.out.match_score = 15

(***************************************************************************)
(* Properties of ingestion passes (SpecPass)                               *)
(***************************************************************************)
\* the passes that have been started and have not yet returned or thrown
InProgress == {t \in Triggers : passes[t].pc \in {"loading", "fetching", "scoring"}}

\* C3: no two ingestion passes are ever in progress at the same time; a pass
\* triggered while another is running is serialized after it or rejected,
\* never interleaved with it.
C3_OnePassAtATime == Cardinality(InProgress) <= 1

\* the sources whose turn of the loop the pass p is past
SourcesDone(p) ==
  IF p.pc = "fetching" THEN {SOURCES[k] : k \in 1..(p.i - 1)}
  ELSE IF p.pc \in {"scoring", "digest", "done"} /\ p.outcome # "skipped"
  THEN {SOURCES[k] : k \in 1..Len(SOURCES)}
  ELSE {}

\* the ids of the postings of p.allJobs that came from a source
IdsFrom(p, source) ==
  {p.allJobs[k].id : k \in {n \in 1..Len(p.allJobs) : p.allJobs[n].source = source}}

\* the requests a source makes in the world of the state
RequestsMade(source) ==
  CASE source = "Remotive" -> {RemotiveRequest(REMOTIVE_SEARCHES[q]) : q \in 1..Len(REMOTIVE_SEARCHES)}
    [] source = "Arbeitnow" ->
         {ArbeitnowRequest(page) : page \in
            {n \in 1..3 : \A before \in 1..(n - 1) : env.net[ArbeitnowRequest(before)] = "ok"}}
    [] source = "GreenJobs" -> {"greenjobs"}
    [] OTHER -> {}

HadFailure(source) == \E r \in RequestsMade(source) : env.net[r] # "ok"

EligibleIds ==
  {"remotive-101", "remotive-102", "remotive-105",
   "arbeitnow-climate-risk-analyst-arup", "arbeitnow-office-manager-acme",
   "arbeitnow-sustainability-manager-greenco"}

\* the searches of Remotive under which each item of its feed is listed
RemotiveListing ==
  [id \in {"101", "102", "103", "104", "105"} |->
     CASE id = "101" -> {"sustainability consultant", "sustainability", "consulting"}
       [] id = "102" -> {"esg analyst", "esg"}
       [] id = "103" -> {"consulting"}
       [] id = "104" -> {"sustainability"}
       [] id = "105" -> {"esg"}]

\* the ids of the items that the requests of a source that succeeded list
ListedBySucceeded(source) ==
  CASE source = "Remotive" ->
         {"remotive-" \o id : id \in
            {x \in DOMAIN RemotiveListing :
               \E query \in RemotiveListing[x] : env.net["remotive:" \o query] = "ok"}}
    [] source = "Arbeitnow" ->
         (IF env.net["arbeitnow:1"] = "ok"
          THEN {"arbeitnow-climate-risk-analyst-arup", "arbeitnow-office-manager-acme",
                "arbeitnow-esg-analyst-acme"}
          ELSE {})
         \cup
         (IF env.net["arbeitnow:1"] = "ok" /\ env.net["arbeitnow:2"] = "ok"
          THEN {"arbeitnow-sustainability-manager-greenco"}
          ELSE {})
    [] OTHER -> {}

C6_BadPostingKeepsBatch ==
  \A t \in Triggers :
     passes[t].gated =>
       /\ passes[t].outcome \notin {"500 Refresh failed", "error logged", "unhandled rejection"}
       /\ \A k \in 1..Len(passes[t].saved) :
            LET row == passes[t].saved[k]
            IN (row.title # NULL /\ row.company # NULL /\ row.url # NULL) => row.id \in DOMAIN jobs

DownloadFailed(t) == passes[t].dl > 0 /\ env.downloads[passes[t].dl] = "failed"

\* C15: when the download of the register fails while a cache file of an
\* earlier download is on disk (even one older than 24 hours), the postings
\* of the pass are classified against the entries of that file and not
\* against an empty register.
C15_FallsBackToCache ==
  \A t \in Triggers :
    DownloadFailed(t) /\ env.cache.kind # "none" =>
      \A map \in passes[t].maps : map = env.cache.entries

\* C20: every posting of one pass is classified against the same contents
\* of the register; a load another pass starts changes nothing for the
\* pass that is running.
C20_OneSnapshotPerPass ==
  \A t \in Triggers : Cardinality(passes[t].maps) <= 1


\* C19: within a source, a request is followed by the source's sleep before
\* the source issues its next request, whether the request succeeded, was
\* answered with a status that is not ok, or threw.
C19_PauseAfterEveryRequest ==
  \A t \in Triggers :
    \A k \in 1..(Len(passes[t].events) - 1) :
      (/\ passes[t].events[k].kind = "request"
       /\ passes[t].events[k + 1].source = passes[t].events[k].source)
        => passes[t].events[k + 1].kind = "sleep"


\* C21: no posting is handed to enrichJob, and so none is in the list a
\* pass scores and stores, unless the relevance filter of its source has
\* answered true for it.
C21_RelevanceBeforeEnrich ==
  \A t \in Triggers :
    \A k \in 1..Len(passes[t].allJobs) :
      isESGRelated(passes[t].allJobs[k].title, passes[t].allJobs[k].description,
                   passes[t].allJobs[k].tags)

\* C22: the list a source returns in one pass never holds two postings
\* with the same id, so the count logged for the source is the number of
\* distinct postings.
C22_NoDuplicateIds ==
  \A t \in Triggers :
    /\ \A j, k \in 1..Len(passes[t].allJobs) :
          (/\ j # k
           /\ passes[t].allJobs[j].source = passes[t].allJobs[k].source)
            => passes[t].allJobs[j].id # passes[t].allJobs[k].id
    /\ \A e \in fetch_log :
          e.pass = t /\ passes[t].pc # "fetching" =>
            e.job_count = Cardinality({passes[t].allJobs[k].id :
                                         k \in {k \in 1..Len(passes[t].allJobs) :
                                                  passes[t].allJobs[k].source = e.source}})


\* the B-Corp directory as a load of it holds it: Greenco is certified
BCorpDirectory == [loaded |-> TRUE, set |-> {"greenco"}]

\* C25: every enriched posting is matched against the B-Corp directory as it
\* is against the sponsor register: a posting of a certified company carries
\* is_bcorp = 1 once enriched, and the is_bcorp stored with a posting is 1
\* if its company is certified and 0 otherwise.
C25_BCorpFlagRecorded ==
  /\ \A t \in Triggers : \A k \in 1..Len(passes[t].allJobs) :
       checkBCorp(BCorpDirectory, passes[t].allJobs[k].company)
         => passes[t].allJobs[k].is_bcorp = 1
  /\ \A id \in DOMAIN jobs :
       jobs[id].is_bcorp = (IF checkBCorp(BCorpDirectory, jobs[id].company) THEN 1 ELSE 0)

\* the pass of t began after a load of the register had completed:
\* ensureLoaded found sponsorSet set and started no load for it
BeganAfterLoad(t) == passes[t].pc \notin {"idle", "loading"} /\ passes[t].dl = 0 /\ passes[t].outcome # "skipped"

\* C27: once a load of the register has completed, with entries or without,
\* no pass starts another one; and when the first load to complete had
\* failed, every pass that begins later enriches against an empty register,
\* so that each of its postings is unverified and scored with visa
\* confidence red.
C27_LoadedOnce ==
  /\ [][sponsor.loaded => sponsor'.downloads = sponsor.downloads]_vars
  /\ [](sponsor.first = "failed" =>
         \A t \in Triggers : BeganAfterLoad(t) =>
            /\ passes[t].maps \subseteq {RegisterEmpty}
            /\ \A k \in 1..Len(passes[t].allJobs) : passes[t].allJobs[k].verified_sponsor = 0
            /\ \A k \in 1..Len(passes[t].scored) : passes[t].scored[k].visa_confidence = "red")

\* the number of sources whose turn of the loop is over in the pass of t
TurnsDone(t) == Cardinality(SourcesDone(passes[t]))

\* C29: within a pass the order is strict.  The load of the register is over
\* before the first source is fetched; the sources are fetched one after
\* another in the order of the list, each leaving exactly one entry in the
\* fetch log; scoring, the gate and the one call of upsertJobs come after the
\* last source; and the digest of the cron job follows the return of the
\* pass.
C29_StrictOrder ==
  /\ [](\A t \in Triggers :
          /\ passes[t].pc \in {"fetching", "scoring", "digest"} => sponsor.loaded
          /\ \A j \in 1..Len(SOURCES) :
               Cardinality({e \in fetch_log : e.pass = t /\ e.source = SOURCES[j]})
                 = (IF j <= TurnsDone(t) THEN 1 ELSE 0)
          /\ passes[t].gated => TurnsDone(t) = Len(SOURCES) /\ passes[t].pc \in {"digest", "done"}
          /\ passes[t].pc = "digest" =>
               t = "cron" /\ passes[t].outcome = "returned" /\ TurnsDone(t) = Len(SOURCES))
  /\ [][jobs' # jobs =>
          \E t \in Triggers : passes[t].pc = "scoring" /\ ~passes[t].gated /\ passes'[t].gated]_vars
  /\ [][\A t \in Triggers :
          /\ passes[t].pc = "fetching" /\ passes'[t] # passes[t] /\ passes[t].i < Len(SOURCES)
               => passes'[t].pc = "fetching" /\ passes'[t].i = passes[t].i + 1
          /\ passes[t].gated => passes'[t].gated /\ passes'[t].saved = passes[t].saved]_vars

\* C29 witness: the cron pass has fetched its eight sources, scored, saved
\* postings and returned, and its digest is about to be sent
C29_Witness ==
  /\ passes["cron"].pc = "digest" /\ passes["cron"].gated /\ passes["cron"].total > 0
  /\ Cardinality({e \in fetch_log : e.pass = "cron"}) = Len(SOURCES)
  /\ sponsor.loaded /\ sponsor.downloads > 0

\* the pass of t reaches upsertJobs in this step
Saving(t) == ~passes[t].gated /\ passes'[t].gated

\* C30: a stored posting that a pass scores below the gate, or that none of
\* its sources returns, is neither updated nor removed by that pass: the row
\* stays in the table with the match_score, visa_confidence and
\* success_probability it had.
C30_BelowGateLeavesRow ==
  [][\A id \in DOMAIN jobs :
       (\A t \in Triggers : Saving(t) =>
           \A k \in 1..Len(passes'[t].scored) :
              passes'[t].scored[k].id = id => passes'[t].scored[k].match_score < MIN_SCORE)
       => /\ id \in DOMAIN jobs'
          /\ jobs'[id].match_score = jobs[id].match_score
          /\ jobs'[id].visa_confidence = jobs[id].visa_confidence
          /\ jobs'[id].success_probability = jobs[id].success_probability]_vars

\* C30 witness: a pass has scored "Office Manager" below the gate and saved
\* other postings, and the row an earlier run stored for it still has the
\* score 40 of that run; the row of the posting no source returns is there
\* as well
C30_Witness ==
  \E t \in Triggers :
    /\ passes[t].gated /\ passes[t].total > 0
    /\ \E k \in 1..Len(passes[t].scored) :
         /\ passes[t].scored[k].id = SeededOfficeManager.id
         /\ passes[t].scored[k].match_score < MIN_SCORE
    /\ SeededOfficeManager.id \in DOMAIN jobs
    /\ jobs[SeededOfficeManager.id].match_score = 40
    /\ jobs[SeededOfficeManager.id].visa_confidence = "yellow"
    /\ "reed-7" \in DOMAIN jobs /\ jobs["reed-7"].match_score = 57

(***************************************************************************)
(* Properties of the pure functions (SpecCalls)                            *)
(***************************************************************************)
\* the weight of a confidence, in hundredths
VisaWeightPercent(confidence) ==
  CASE confidence = "green" -> 100
    [] confidence = "yellow" -> 55
    [] confidence = "red" -> 15
    [] OTHER -> 30

\* C11: computeSuccessProbability(score, confidence) is
\* round(score * 0.6 + w * 100 * 0.4) with w = 1.0 for green, 0.55 for
\* yellow, 0.15 for red and 0.3 otherwise; for every score in 0..100 it lies
\* in 0..100; probability(100, green) = 100 and probability(0, red) = 6.
C11_SuccessProbability ==
  sc.phase = "returned" /\ sc.fn = "computeSuccessProbability" =>
    LET tenfold == 6 * sc.args.matchScore + 4 * VisaWeightPercent(sc.args.visaConfidence)
    IN /\ 10 * sc.out <= tenfold + 5
       /\ tenfold + 5 < 10 * sc.out + 10
       /\ sc.out \in 0..100
       /\ sc.args.matchScore = 100 /\ sc.args.visaConfidence = "green" => sc.out = 100
       /\ sc.args.matchScore = 0 /\ sc.args.visaConfidence = "red" => sc.out = 6

\* the ranker has returned for a score whose weighted sum is rounded up
C11_Witness ==
  /\ sc.phase = "returned" /\ sc.fn = "computeSuccessProbability"
  /\ sc.args.matchScore = 1 /\ sc.args.visaConfidence = "red" /\ sc.out = 7

\* C12: normalise is total on strings and idempotent: for every string x,
\* the empty one, blanks and punctuation included, normalise(x) returns and
\* normalise(normalise(x)) = normalise(x).
C12_NormaliseIdempotent ==
  sc.phase = "returned" /\ sc.fn = "normalise" => normalise(sc.out) = sc.out

\* the fixed placeholder names
PlaceholderNames ==
  {"unknown", "see listing", "confidential", "not disclosed", "anonymous", "various", "multiple",
   "tbc", "tba", "not specified", "undisclosed", "company", "employer", "hiring company",
   "top company", "leading company"}

\* the key a company name is looked up under: its normalised form, or that
\* of the official name an abbreviation stands for
LookupKey(name) ==
  LET key == normalise(name)
  IN CASE key = "arup" -> "ove arup & partners international"
       [] key = "pwc" -> "pricewaterhousecoopers"
       [] OTHER -> key

\* a is contained in b
ContainedIn(a, b) == \E i \in 1..(Len(b) - Len(a) + 1) : SubSeq(b, i, i + Len(a) - 1) = a

\* the fuzzy candidates of a key among keys, the ratio given in tenths
FuzzyCandidate(key, other, tenths) ==
  /\ Len(key) >= 5 /\ Len(other) >= 5
  /\ IF Len(key) <= Len(other)
     THEN 10 * Len(key) >= tenths * Len(other) /\ ContainedIn(key, other)
     ELSE 10 * Len(other) >= tenths * Len(key) /\ ContainedIn(other, key)

\* the names the matchers are meant to look up at all: given, three letters
\* or more once normalised, no placeholder, no inherited property name
Matchable(name) ==
  /\ name # NULL
  /\ Len(normalise(name)) >= 3
  /\ normalise(name) \notin PlaceholderNames \cup {"constructor"}

C14_PlaceholderNeverMatches ==
  sc.phase = "returned" /\ sc.fn = "checkSponsor" /\ sc.args.name # NULL
    /\ normalise(sc.args.name) \in PlaceholderNames
  => ~sc.out.verified /\ ~sc.out.threw

\* "Unknown" and "Confidential" have been looked up in a register that lists
\* "Unknown Ltd" and "Confidential Recruitment", and were not matched
C14_Witness ==
  /\ sc.phase = "returned" /\ sc.fn = "checkSponsor"
  /\ sc.args.reg.map = MatchRegister
  /\ \E k \in 1..Len(MatchRegister) :
       \/ sc.args.name = "Unknown" /\ MatchRegister[k].key = "unknown"
       \/ sc.args.name = "Confidential" /\ FuzzyCandidate("confidential", MatchRegister[k].key, 5)
  /\ ~sc.out.verified

\* the keywords of a list, as a set
Keywords(list) == {list[k] : k \in 1..Len(list)}

\* the text in which isESGRelated looks for keywords: an absent part is empty
CombinedText(title, description, tags) ==
  ToLower(OrEmpty(title)) \o " " \o ToLower(OrEmpty(description)) \o " " \o ToLower(OrEmpty(tags))

\* relevance under Variant A as the specification words it
VariantA(title, description, tags) ==
  \/ \E kw \in Keywords(ESG_STRONG) : Includes(CombinedText(title, description, tags), kw)
  \/ \E kw \in Keywords(ESG_WEAK) : Includes(ToLower(OrEmpty(title)), kw)
  \/ Cardinality({kw \in Keywords(ESG_WEAK) : Includes(CombinedText(title, description, tags), kw)}) >= 3

\* C16: isESGRelated answers true exactly when a strong keyword occurs in
\* the combined text of title, description and tags, or a weak keyword
\* occurs in the title, or three or more distinct weak keywords occur in the
\* combined text; with null or empty parts it does not throw and finds no
\* evidence in them.
C16_VariantA ==
  sc.phase = "returned" /\ sc.fn = "isESGRelated" =>
    /\ ~sc.out.threw
    /\ sc.out.value = VariantA(sc.args.title, sc.args.description, sc.args.tags)
    /\ (~Truthy(sc.args.title) /\ ~Truthy(sc.args.description) /\ ~Truthy(sc.args.tags)
          => sc.out.value = FALSE)

\* C16 witness: relevant by three weak keywords in the description alone,
\* the title and the tags being absent
C16_Witness ==
  /\ sc.phase = "returned" /\ sc.fn = "isESGRelated"
  /\ sc.args.title = NULL /\ sc.args.tags = NULL
  /\ sc.args.description = "Responsible for stakeholder engagement and governance"
  /\ sc.out.value = TRUE

\* C17: isSearchESGRelevant answers true exactly when Variant A passes on
\* (title, snippet) or the query contains a strong keyword and the title
\* matches the role pattern; whatever the query, a posting relevant under
\* Variant A is relevant under Variant C.
C17_VariantC ==
  sc.phase = "returned" /\ sc.fn = "isSearchESGRelevant" =>
    /\ VariantA(sc.args.title, sc.args.snippet, "") => ~sc.out.threw /\ sc.out.value
    /\ sc.args.searchKeywords # NULL =>
          /\ ~sc.out.threw
          /\ sc.out.value =
                (\/ VariantA(sc.args.title, sc.args.snippet, "")
                 \/ /\ \E kw \in Keywords(ESG_STRONG) : Includes(ToLower(sc.args.searchKeywords), kw)
                    /\ \E w \in Keywords(ESG_ROLE_WORDS) : Includes(ToLower(sc.args.title), w))

\* C17 witness: a title with no keyword of either tier, relevant through
\* the query and the role pattern alone
C17_Witness ==
  /\ sc.phase = "returned" /\ sc.fn = "isSearchESGRelevant"
  /\ sc.args.title = "Business Analyst" /\ sc.args.snippet = ""
  /\ sc.args.searchKeywords = "ESG consultant"
  /\ ~isESGRelated(sc.args.title, sc.args.snippet, "")
  /\ sc.out.value = TRUE

\* C18: a posting titled "Sustainability Consultant" of an employer that
\* matches the register, with the salary text "#50,000", scored without the
\* remote model, gets an occupation code, visa_confidence green, a
\* match_score of 60 or more and a success_probability of 70 or more,
\* whatever its location, its description and its remote flag.
C18_ConsultantAtSponsor ==
  (/\ sc.phase = "returned" /\ sc.fn = "enrichJob, scoreJob"
   /\ sc.args.rawJob.title = "Sustainability Consultant"
   /\ sc.args.rawJob.salary = POUND \o "50,000"
   /\ checkSponsor(sc.args.reg, sc.args.rawJob.company).verified)
    => /\ sc.out.path = "heuristic"
       /\ sc.out.soc_code \in {SOC_CODES[k] : k \in 1..Len(SOC_CODES)}
       /\ sc.out.visa_confidence = "green"
       /\ sc.out.match_score >= 60
       /\ sc.out.success_probability >= 70

\* C18 witness: such a posting with no location, no description and no
\* remote flag, its employer found on the register by a partial match
C18_Witness ==
  /\ sc.phase = "returned" /\ sc.fn = "enrichJob, scoreJob"
  /\ sc.args.rawJob.title = "Sustainability Consultant"
  /\ sc.args.rawJob.salary = POUND \o "50,000"
  /\ sc.args.rawJob.location = NULL /\ sc.args.rawJob.description = NULL
  /\ sc.args.rawJob.remote = NULLNUM
  /\ checkSponsor(sc.args.reg, sc.args.rawJob.company).fuzzyMatch
  /\ sc.out.verified_sponsor = 1 /\ sc.out.visa_confidence = "green"
  /\ sc.out.match_score = 63 /\ sc.out.success_probability = 78


\* C24: a company name whose normalised form has fewer than 3 characters is
\* never matched, neither against the sponsor register nor against the B-Corp
\* directory, whatever they hold.
C24_ShortNameNeverMatches ==
  /\ sc.phase = "returned" /\ sc.fn = "checkSponsor" /\ sc.args.name # NULL
       /\ Len(normalise(sc.args.name)) < 3
     => ~sc.out.verified
  /\ sc.phase = "returned" /\ sc.fn = "checkBCorp" /\ sc.args.name # NULL
       /\ Len(normalise(sc.args.name)) < 3
     => sc.out = FALSE

(***************************************************************************)
(* Properties of the scoring loop (SpecScoreJobs)                          *)
(***************************************************************************)
\* the passes with a request to the remote model in flight
AICallsInFlight == {t \in Triggers : passes[t].at = "call"}

\* C23: with a key, at most one request to the remote model is in flight at
\* any time; without a key no request is made and no timer is set.
C23_OneAICallAtATime ==
  /\ Cardinality(AICallsInFlight) <= 1
  /\ ~Truthy(env.key) => \A t \in Triggers : passes[t].at \in {"none", "done"}

====


